---- MODULE Spec2Model ----
(***************************************************************************)
(* A model of the pyNastran tools repository:                              *)
(*   - the include-file renumbering pipeline of                            *)
(*     preprocessing/renumber_includes.py (Validator, MappingBuilder,      *)
(*     CardRenumberer, OutputWriter, RenumberIncludesTool._apply);         *)
(*   - the partition engine of preprocessing/partition_bdf.py              *)
(*     (partition_model, merge_parts, write_partition).                    *)
(*                                                                         *)
(* Cards are records [type, attrs, uid]: attrs maps each attribute name of *)
(* the card object to a sequence of integers (a scalar attribute is a      *)
(* sequence of length one, Python's None is the value None below); uid is  *)
(* the identity of the card object.  A model dict is a sequence of entries *)
(* [key, cards] in insertion order (Python dict order); a dict of single   *)
(* cards holds one card per entry, a dict of lists (spcs, mpcs, loads)     *)
(* holds the list.                                                         *)
(***************************************************************************)
EXTENDS Integers, Sequences, FiniteSets, TLC

VARIABLES
    pc,               \* position of RenumberIncludesTool._apply
    file_ids,         \* IncludeFileParser.file_ids: file -> family -> set of ids
    ranges,           \* file -> family -> <<start, end>> or NoRange
    include_set_ids,  \* the "Include set IDs" toggle
    errors,           \* the list Validator.validate_ranges returned (as a set)
    maps,             \* MappingBuilder.maps: family -> (old id -> new id)
    model,            \* the pyNastran model store: dict name -> dict
    model0,           \* the store as read from the input deck (history)
    home,             \* card uid -> the input file its text is in (history)
    written,          \* output file -> [ordered, fallback] sequences of cards
    ppc,              \* position of the partition tool
    pmodel,           \* the model the partition engine reads
    result,           \* PartitionResult: [parts, joints, warnings]
    pfiles,           \* files written by write_partition: name -> emitted ids
    lastMerge,        \* the last merge_parts call: its merge set and absorbed joints (history)
    disk,             \* the input files: path -> [exists, lines]
    parser,           \* the IncludeFileParser: its fields and its calls in progress
    out,              \* the lines of the files OutputWriter wrote: path -> lines
    scale,            \* the mass scale tool
    gui               \* the PartitionTool window: its fields, buttons and threads

rvars == <<pc, file_ids, ranges, include_set_ids, errors, maps, model, model0,
           home, written, disk, parser, out>>
pvars == <<ppc, pmodel, result, pfiles, lastMerge, gui>>
vars == <<rvars, pvars, scale>>

-----------------------------------------------------------------------------
(* Generic helpers *)

None == -1

Range(s) == {s[i] : i \in DOMAIN s}

EmptyMap == [x \in {} |-> x]

Min(S) == CHOOSE x \in S : \A y \in S : x <= y
Max(S) == CHOOSE x \in S : \A y \in S : x >= y

\* sorted(ids): the ascending sequence of a finite set of integers
RECURSIVE SortedSeq(_)
SortedSeq(S) == IF S = {} THEN <<>> ELSE <<Min(S)>> \o SortedSeq(S \ {Min(S)})

\* position (from 0) of x in sorted(ids)
IndexIn(x, ids) == Cardinality({y \in ids : y < x})

-----------------------------------------------------------------------------
(* bdf_utils.py: entity families *)

ENTITY_TYPES == <<"nid", "eid", "pid", "mid", "cid", "spc_id", "mpc_id",
                  "load_id", "contact_id", "set_id", "method_id", "table_id">>

SET_ID_TYPES == {"spc_id", "mpc_id", "load_id"}

\* IncludeFileParser.all_files of the decks considered: the main file first,
\* then its includes in encounter order.
all_files == <<"main.bdf", "a.inc", "b.inc">>

Files == Range(all_files)

\* os.path.basename order of the file names (Python string comparison)
FnameRank(f) == CASE f = "a.inc" -> 1 [] f = "b.inc" -> 2 [] f = "main.bdf" -> 3

NoRange == <<>>

-----------------------------------------------------------------------------
(* Validator.validate_ranges *)

\* whether validate_ranges looks at the family at all
ValidatedType(etype, inc) == inc \/ etype \notin SET_ID_TYPES

\* BucketErrors without the capacity check of lines 131-137
BucketErrorsNoCapacity(fids, rngs, etype, f) ==
    LET ids == fids[f][etype]
        r == rngs[f][etype]
    IN  IF ids = {} THEN {}
        ELSE IF r = NoRange
        THEN {[kind |-> "no_range", etype |-> etype, files |-> <<f>>]}
        ELSE (IF r[1] < 1
              THEN {[kind |-> "start_lt_1", etype |-> etype, files |-> <<f>>]}
              ELSE {})
             \cup
             (IF r[2] < r[1]
              THEN {[kind |-> "end_lt_start", etype |-> etype, files |-> <<f>>]}
              ELSE {})

\* the errors of one (file, family) bucket: lines 103-137
BucketErrors(fids, rngs, etype, f) ==
    LET ids == fids[f][etype]
        r == rngs[f][etype]
    IN  IF ids = {} THEN {}
        ELSE IF r = NoRange
        THEN {[kind |-> "no_range", etype |-> etype, files |-> <<f>>]}
        ELSE (IF r[1] < 1
              THEN {[kind |-> "start_lt_1", etype |-> etype, files |-> <<f>>]}
              ELSE {})
             \cup
             (IF r[2] < r[1]
              THEN {[kind |-> "end_lt_start", etype |-> etype, files |-> <<f>>]}
              ELSE IF r[2] - r[1] + 1 < Cardinality(ids)
              THEN {[kind |-> "capacity", etype |-> etype, files |-> <<f>>]}
              ELSE {})

\* etype_ranges: the (start, end, fname) tuples appended at line 139
EtypeRanges(fids, rngs, etype) ==
    {<<rngs[f][etype][1], rngs[f][etype][2], f>> :
        f \in {g \in Files : /\ fids[g][etype] # {}
                             /\ rngs[g][etype] # NoRange
                             /\ rngs[g][etype][2] >= rngs[g][etype][1]}}

\* Python's tuple order on (start, end, fname)
TupleLess(a, b) ==
    \/ a[1] < b[1]
    \/ a[1] = b[1] /\ a[2] < b[2]
    \/ a[1] = b[1] /\ a[2] = b[2] /\ FnameRank(a[3]) < FnameRank(b[3])

\* etype_ranges.sort()
RECURSIVE SortTuples(_)
SortTuples(S) ==
    IF S = {} THEN <<>>
    ELSE LET m == CHOOSE a \in S : \A b \in S \ {a} : TupleLess(a, b)
         IN  <<m>> \o SortTuples(S \ {m})

\* OverlapErrors comparing only the first two ranges of the sorted list
OverlapErrorsFirstPair(fids, rngs, etype) ==
    LET sorted == SortTuples(EtypeRanges(fids, rngs, etype))
    IN  {[kind |-> "overlap", etype |-> etype,
          files |-> <<sorted[i][3], sorted[i + 1][3]>>] :
            i \in {j \in 1 .. Len(sorted) - 1 :
                      j = 1 /\ sorted[j + 1][1] <= sorted[j][2]}}

\* the overlap check of lines 141-150: neighbours of the sorted list
OverlapErrors(fids, rngs, etype) ==
    LET sorted == SortTuples(EtypeRanges(fids, rngs, etype))
    IN  {[kind |-> "overlap", etype |-> etype,
          files |-> <<sorted[i][3], sorted[i + 1][3]>>] :
            i \in {j \in 1 .. Len(sorted) - 1 : sorted[j + 1][1] <= sorted[j][2]}}

\* the CID 0 check of lines 152-160
Cid0Errors(fids, rngs) ==
    {[kind |-> "cid0", etype |-> "cid", files |-> <<f>>] :
        f \in {g \in Files : /\ 0 \in fids[g]["cid"]
                             /\ rngs[g]["cid"] # NoRange
                             /\ rngs[g]["cid"][1] # 0}}

validate_ranges(fids, rngs, inc) ==
    UNION {UNION {BucketErrors(fids, rngs, etype, f) : f \in Files}
             \cup OverlapErrors(fids, rngs, etype) :
           etype \in {t \in Range(ENTITY_TYPES) : ValidatedType(t, inc)}}
    \cup Cid0Errors(fids, rngs)

-----------------------------------------------------------------------------
(* MappingBuilder.build *)

\* the map of one family after the files all_files[1..i] were processed:
\* a later file overwrites the entry an earlier file made for the same old id
RECURSIVE BuildType(_, _, _, _)
BuildType(fids, rngs, etype, i) ==
    IF i = 0 THEN EmptyMap
    ELSE LET prev == BuildType(fids, rngs, etype, i - 1)
             f == all_files[i]
             ids == fids[f][etype]
             r == rngs[f][etype]
         IN  IF ids = {} \/ r = NoRange THEN prev
             ELSE [old \in DOMAIN prev \cup ids |->
                      IF old \in ids THEN r[1] + IndexIn(old, ids)
                      ELSE prev[old]]

build(fids, rngs) ==
    [etype \in Range(ENTITY_TYPES) |->
        BuildType(fids, rngs, etype, Len(all_files))]

-----------------------------------------------------------------------------
(* CardRenumberer *)

\* CardRenumberer.__init__ (lines 229-240): the map each family is renumbered
\* with; the three set-id maps are empty when the toggle is off
RenumberMap(mps, inc, fam) ==
    IF fam \in SET_ID_TYPES /\ ~inc THEN EmptyMap ELSE mps[fam]

\* _m without the test for 0
_m_blank_only(id_map, old_id) ==
    IF old_id = None THEN old_id
    ELSE IF old_id \in DOMAIN id_map THEN id_map[old_id] ELSE old_id

\* CardRenumberer._m
_m(id_map, old_id) ==
    IF old_id = None \/ old_id = 0 THEN old_id
    ELSE IF old_id \in DOMAIN id_map THEN id_map[old_id] ELSE old_id

\* CardRenumberer._m_list
_m_list(id_map, old_ids) == [i \in DOMAIN old_ids |-> _m(id_map, old_ids[i])]

HasAttr(card, a) == a \in DOMAIN card.attrs

\* setattr(card, a, v)
SetAttr(card, a, v) ==
    [card EXCEPT !.attrs = [x \in DOMAIN card.attrs \cup {a} |->
                               IF x = a THEN v ELSE card.attrs[x]]]

\* the model dicts CardRenumberer.apply rebuilds, in the order of apply()
MODEL_DICTS == <<"nodes", "spoints", "elements", "rigid_elements", "masses",
                 "properties", "materials", "coords", "spcs", "spcadds",
                 "mpcs", "mpcadds", "loads", "dloads", "dload_entries",
                 "bsurf", "bsurfs", "bctsets", "bctadds", "bconp", "bcbodys",
                 "blsegs", "sets", "methods", "tables", "suport1">>

\* every dict of the store: those apply() rebuilds and those only the writer reads
STORE_DICTS == Range(MODEL_DICTS) \cup {"plotels", "bfriction", "bctparas", "bctparms"}

\* the dicts whose values are lists of cards (setdefault(...).extend(...))
LIST_DICTS == {"spcs", "spcadds", "mpcs", "mpcadds", "loads", "dloads",
               "dload_entries"}

\* the family whose map renumbers the keys of a dict
KeyFamily(d) ==
    CASE d \in {"nodes", "spoints"} -> "nid"
      [] d \in {"elements", "rigid_elements", "masses"} -> "eid"
      [] d = "properties" -> "pid"
      [] d = "materials" -> "mid"
      [] d = "coords" -> "cid"
      [] d \in {"spcs", "spcadds"} -> "spc_id"
      [] d \in {"mpcs", "mpcadds"} -> "mpc_id"
      [] d \in {"loads", "dloads", "dload_entries"} -> "load_id"
      [] d \in {"bsurf", "bsurfs", "bctsets", "bctadds", "bconp", "bcbodys",
                "blsegs"} -> "contact_id"
      [] d = "sets" -> "set_id"
      [] d = "methods" -> "method_id"
      [] d = "tables" -> "table_id"
      [] d = "suport1" -> "none"

\* the attribute each handler assigns the new key to (<<>>: none)
KeyAttr(d, card) ==
    CASE d = "nodes" -> <<"nid">>
      [] d = "spoints" -> IF HasAttr(card, "spoint") THEN <<"spoint">> ELSE <<>>
      [] d \in {"elements", "rigid_elements", "masses"} -> <<"eid">>
      [] d = "properties" -> <<"pid">>
      [] d = "materials" -> <<"mid">>
      [] d = "coords" -> <<"cid">>
      [] d \in {"spcs", "spcadds", "mpcs", "mpcadds"} -> <<"conid">>
      [] d \in {"loads", "dloads", "dload_entries", "bsurf", "bsurfs", "sets",
                "methods"} -> <<"sid">>
      [] d \in {"bctsets", "bctadds"} -> <<"csid">>
      [] d = "bconp" -> <<"contact_id">>
      [] d = "bcbodys" ->
            IF HasAttr(card, "contact_id") THEN <<"contact_id">> ELSE <<>>
      [] d = "blsegs" -> IF HasAttr(card, "sid") THEN <<"sid">> ELSE <<>>
      [] d = "tables" -> <<"tid">>
      [] d = "suport1" -> <<>>

SHELL_TYPES == {"CQUAD4", "CQUAD8", "CTRIA3", "CTRIA6", "CQUADR", "CTRIAR"}

\* SetHeuristicFamily with the element map on a tie
SetHeuristicFamilyTieToElements(mps, card) ==
    LET id_set == Range(card.attrs["ids"])
        node_overlap == Cardinality(id_set \cap DOMAIN mps["nid"])
        elem_overlap == Cardinality(id_set \cap DOMAIN mps["eid"])
    IN  IF node_overlap > elem_overlap THEN "nid" ELSE "eid"

\* SET1/SET3 (lines 740-749): the node map when it hits at least as many ids
SetHeuristicFamily(mps, card) ==
    LET id_set == Range(card.attrs["ids"])
        node_overlap == Cardinality(id_set \cap DOMAIN mps["nid"])
        elem_overlap == Cardinality(id_set \cap DOMAIN mps["eid"])
    IN  IF node_overlap >= elem_overlap THEN "nid" ELSE "eid"

\* The reference attributes a handler remaps on a card of dict d, with the
\* family of the map it uses, in the order of the code (lines 270-795).
RemappedAttrs(d, card, mps) ==
    LET t == card.type IN
    CASE d = "nodes" -> <<<<"cp", "cid">>, <<"cd", "cid">>>>
      [] d = "elements" ->
            <<<<"nodes", "nid">>>>
            \o (IF t # "CONROD" THEN <<<<"pid", "pid">>>> ELSE <<<<"mid", "mid">>>>)
            \o (IF t \in {"CBAR", "CBEAM"} THEN <<<<"g0", "nid">>>> ELSE <<>>)
            \o (IF t = "CBUSH" THEN <<<<"cid", "cid">>>> ELSE <<>>)
            \o (IF t \in SHELL_TYPES THEN <<<<"theta_mcid", "cid">>>> ELSE <<>>)
      [] d = "rigid_elements" ->
            (CASE t = "RBE2" -> <<<<"gn", "nid">>, <<"Gmi", "nid">>>>
              [] t = "RBE3" -> <<<<"refgrid", "nid">>, <<"Gijs", "nid">>>>
              [] t = "RBAR" -> <<<<"nodes", "nid">>, <<"ga", "nid">>, <<"gb", "nid">>>>
              [] OTHER -> <<>>)
      [] d = "masses" ->
            (CASE t \in {"CONM2", "CONM1"} -> <<<<"nid", "nid">>, <<"cid", "cid">>>>
              [] t = "CMASS1" -> <<<<"nodes", "nid">>, <<"pid", "pid">>>>
              [] t \in {"CMASS2", "CMASS3", "CMASS4"} -> <<<<"nodes", "nid">>>>
              [] OTHER -> <<>>)
      [] d = "properties" ->
            (CASE t = "PSHELL" -> <<<<"mid1", "mid">>, <<"mid2", "mid">>,
                                   <<"mid3", "mid">>, <<"mid4", "mid">>>>
              [] t \in {"PCOMP", "PCOMPG", "PCOMPLS"} -> <<<<"mids", "mid">>>>
              [] t \in {"PSOLID", "PLSOLID"} -> <<<<"mid", "mid">>, <<"cordm", "cid">>>>
              [] t \in {"PBAR", "PBARL", "PBEAM", "PBEAML", "PROD", "PSHEAR",
                        "PWELD", "PFAST", "PVISC"} -> <<<<"mid", "mid">>>>
              [] OTHER -> <<>>)
      [] d = "coords" -> <<<<"rid", "cid">>>>
      [] d = "spcs" ->
            (CASE t = "SPC" -> <<<<"nodes", "nid">>, <<"gids", "nid">>>>
              [] t = "SPC1" -> <<<<"nodes", "nid">>>>
              [] OTHER -> <<>>)
      [] d = "spcadds" -> <<<<"spc_ids", "spc_id">>, <<"sets", "spc_id">>>>
      [] d = "mpcs" -> <<<<"nodes", "nid">>, <<"gids", "nid">>>>
      [] d = "mpcadds" -> <<<<"mpc_ids", "mpc_id">>, <<"sets", "mpc_id">>>>
      [] d = "loads" ->
            (CASE t \in {"FORCE", "MOMENT"} -> <<<<"node", "nid">>, <<"cid", "cid">>>>
              [] t = "PLOAD4" -> <<<<"eids", "eid">>, <<"eid", "eid">>, <<"g1", "nid">>,
                                   <<"g34", "nid">>, <<"cid", "cid">>>>
              [] t = "GRAV" -> <<<<"cid", "cid">>>>
              [] t \in {"LOAD", "DLOAD"} -> <<<<"load_ids", "load_id">>>>
              [] t = "TEMP" -> <<<<"temperatures", "nid">>>>
              [] t = "DAREA" -> <<<<"nodes", "nid">>, <<"node_id", "nid">>>>
              [] t \in {"RLOAD1", "RLOAD2", "TLOAD1", "TLOAD2"} ->
                    <<<<"excite_id", "load_id">>, <<"tid", "table_id">>,
                      <<"tid1", "table_id">>>>
              [] t \in {"PLOAD", "PLOAD2"} -> <<<<"nodes", "nid">>, <<"eids", "eid">>,
                                                <<"eid", "eid">>>>
              [] t = "RFORCE" -> <<<<"nid", "nid">>, <<"cid", "cid">>>>
              [] OTHER -> <<>>)
      [] d = "dloads" -> <<<<"load_ids", "load_id">>>>
      [] d = "dload_entries" -> <<<<"excite_id", "load_id">>, <<"tid", "table_id">>>>
      [] d = "bsurf" -> <<<<"eids", "eid">>>>
      [] d = "bsurfs" -> <<<<"eids", "eid">>, <<"nodes", "nid">>>>
      [] d = "bctsets" -> <<<<"sids", "contact_id">>, <<"tids", "contact_id">>>>
      [] d = "bctadds" -> <<<<"contact_sets", "contact_id">>>>
      [] d = "bconp" -> <<<<"slave", "contact_id">>, <<"master", "contact_id">>,
                          <<"cid", "cid">>>>
      [] d = "bcbodys" -> <<<<"bsid", "contact_id">>>>
      [] d = "blsegs" -> <<<<"nodes", "nid">>>>
      [] d = "sets" ->
            IF HasAttr(card, "ids") /\ card.attrs["ids"] # <<>>
            THEN <<<<"ids", SetHeuristicFamily(mps, card)>>>> ELSE <<>>
      [] d = "suport1" -> <<<<"nodes", "nid">>, <<"IDs", "nid">>>>
      [] OTHER -> <<>>

\* apply the remaps refs[1..n] to the card: each "if hasattr(card, a):
\* card.a = self._m_list(map, card.a)"
RECURSIVE RemapAttrs(_, _, _, _)
RemapAttrs(card, refs, n, mps) ==
    IF n = 0 THEN card
    ELSE LET c == RemapAttrs(card, refs, n - 1, mps)
             a == refs[n][1]
         IN  IF HasAttr(c, a)
             THEN SetAttr(c, a, _m_list(mps[refs[n][2]], c.attrs[a]))
             ELSE c

\* what one handler does to one card stored under new_key
RenumberCard(d, card, new_key, rmaps) ==
    LET keyed == IF KeyAttr(d, card) = <<>> THEN card
                 ELSE SetAttr(card, KeyAttr(d, card)[1], <<new_key>>)
        refs == RemappedAttrs(d, keyed, rmaps)
    IN  RemapAttrs(keyed, refs, Len(refs), rmaps)

\* new_dict[k] = card
DictPut(dict, k, cards) ==
    IF \E i \in DOMAIN dict : dict[i].key = k
    THEN [i \in DOMAIN dict |-> IF dict[i].key = k
                                THEN [key |-> k, cards |-> cards] ELSE dict[i]]
    ELSE Append(dict, [key |-> k, cards |-> cards])

\* new_dict.setdefault(k, []).extend(cards)
DictExtend(dict, k, cards) ==
    IF \E i \in DOMAIN dict : dict[i].key = k
    THEN [i \in DOMAIN dict |-> IF dict[i].key = k
                                THEN [key |-> k, cards |-> dict[i].cards \o cards]
                                ELSE dict[i]]
    ELSE Append(dict, [key |-> k, cards |-> cards])

\* one _renumber_* loop over the first n entries of a dict
RECURSIVE RenumberDict(_, _, _, _)
RenumberDict(d, dict, n, rmaps) ==
    IF n = 0 THEN <<>>
    ELSE LET new == RenumberDict(d, dict, n - 1, rmaps)
             e == dict[n]
         IN  IF d = "coords" /\ e.key = 0
             THEN DictPut(new, 0, e.cards)
             ELSE LET new_key == IF d = "suport1" THEN e.key
                                 ELSE _m(rmaps[KeyFamily(d)], e.key)
                      cards == [i \in DOMAIN e.cards |->
                                   RenumberCard(d, e.cards[i], new_key, rmaps)]
                  IN  IF d \in LIST_DICTS THEN DictExtend(new, new_key, cards)
                      ELSE DictPut(new, new_key, cards)

\* CardRenumberer(model, maps, include_set_ids).apply()
apply(mdl, mps, inc) ==
    LET rmaps == [fam \in Range(ENTITY_TYPES) |-> RenumberMap(mps, inc, fam)]
    IN  [d \in STORE_DICTS |->
            IF d \in Range(MODEL_DICTS) THEN RenumberDict(d, mdl[d], Len(mdl[d]), rmaps)
            ELSE mdl[d]]

-----------------------------------------------------------------------------
(* OutputWriter *)

CARD_ENTITY_MAP(t) ==
    CASE t \in {"GRID", "SPOINT"} -> "nid"
      [] t \in {"CQUAD4", "CTRIA3", "CHEXA", "CPENTA", "CTETRA", "CBAR", "CBEAM",
                "CROD", "CONROD", "CBUSH", "CELAS1", "CELAS2", "CELAS3", "CELAS4",
                "CDAMP1", "CDAMP2", "CDAMP3", "CDAMP4", "CGAP", "CQUAD8",
                "CTRIA6", "CQUADR", "CTRIAR", "CSHEAR", "PLOTEL", "CWELD",
                "CFAST", "CVISC", "CHBDYG", "CHBDYE", "RBE2", "RBE3", "RBAR",
                "CONM1", "CONM2", "CMASS1", "CMASS2", "CMASS3", "CMASS4"} -> "eid"
      [] t \in {"PSHELL", "PCOMP", "PCOMPG", "PSOLID", "PBAR", "PBARL", "PBEAM",
                "PBEAML", "PROD", "PBUSH", "PBUSHT", "PELAS", "PDAMP", "PGAP",
                "PWELD", "PFAST", "PVISC", "PSHEAR", "PLSOLID", "PCOMPLS"} -> "pid"
      [] t \in {"MAT1", "MAT2", "MAT8", "MAT9", "MAT10"} -> "mid"
      [] t \in {"CORD2R", "CORD2C", "CORD2S", "CORD1R", "CORD1C", "CORD1S"} -> "cid"
      [] t \in {"SPC", "SPC1", "SPCADD"} -> "spc_id"
      [] t \in {"MPC", "MPCADD"} -> "mpc_id"
      [] t \in {"FORCE", "MOMENT", "PLOAD4", "GRAV", "LOAD", "TEMP", "TEMPD",
                "RFORCE", "RLOAD1", "RLOAD2", "TLOAD1", "TLOAD2", "DAREA",
                "DLOAD", "PLOAD", "PLOAD2"} -> "load_id"
      [] t \in {"BSURF", "BSURFS", "BCTSET", "BCTADD", "BCONP", "BCBODY",
                "BCTPARA", "BCTPARM", "BLSEG", "BFRIC"} -> "contact_id"
      [] t \in {"SET1", "SET3"} -> "set_id"
      [] t \in {"EIGRL", "EIGR"} -> "method_id"
      [] t \in {"TABLED1", "TABLEM1"} -> "table_id"
      [] OTHER -> "none"

CARD_ORDER ==
    << <<"CORD2R", "CORD2C", "CORD2S", "CORD1R", "CORD1C", "CORD1S">>,
       <<"GRID", "SPOINT">>,
       <<"CHEXA", "CPENTA", "CTETRA", "CQUAD4", "CQUAD8", "CTRIA3", "CTRIA6",
         "CQUADR", "CTRIAR", "CSHEAR", "CBAR", "CBEAM", "CROD", "CONROD",
         "CBUSH", "CELAS1", "CELAS2", "CELAS3", "CELAS4", "CDAMP1", "CDAMP2",
         "CDAMP3", "CDAMP4", "CGAP", "CWELD", "CFAST", "CVISC", "PLOTEL",
         "CHBDYG", "CHBDYE">>,
       <<"RBE2", "RBE3", "RBAR">>,
       <<"CONM1", "CONM2", "CMASS1", "CMASS2", "CMASS3", "CMASS4">>,
       <<"PSHELL", "PCOMP", "PCOMPG", "PCOMPLS", "PSOLID", "PLSOLID", "PBAR",
         "PBARL", "PBEAM", "PBEAML", "PROD", "PBUSH", "PBUSHT", "PELAS",
         "PDAMP", "PGAP", "PSHEAR", "PWELD", "PFAST", "PVISC">>,
       <<"MAT1", "MAT2", "MAT8", "MAT9", "MAT10">>,
       <<"FORCE", "MOMENT", "PLOAD", "PLOAD2", "PLOAD4", "GRAV", "RFORCE",
         "TEMP", "TEMPD", "DAREA">>,
       <<"LOAD", "DLOAD">>,
       <<"RLOAD1", "RLOAD2", "TLOAD1", "TLOAD2">>,
       <<"SPC", "SPC1", "SPCADD", "MPC", "MPCADD">>,
       <<"BSURF", "BSURFS", "BCTSET", "BCTADD", "BCONP", "BCBODY", "BCTPARA",
         "BCTPARM", "BLSEG", "BFRIC">>,
       <<"SET1", "SET3">>,
       <<"EIGRL", "EIGR">>,
       <<"TABLED1", "TABLEM1">> >>

\* OutputWriter._MODEL_DICTS: the dicts of a family with their is-list flag
WRITER_MODEL_DICTS(etype) ==
    CASE etype = "nid" -> <<"nodes", "spoints">>
      [] etype = "eid" -> <<"elements", "rigid_elements", "masses", "plotels">>
      [] etype = "pid" -> <<"properties">>
      [] etype = "mid" -> <<"materials">>
      [] etype = "cid" -> <<"coords">>
      [] etype = "spc_id" -> <<"spcs", "spcadds">>
      [] etype = "mpc_id" -> <<"mpcs", "mpcadds">>
      [] etype = "load_id" -> <<"loads", "dloads", "dload_entries">>
      [] etype = "contact_id" -> <<"bsurf", "bsurfs", "bctsets", "bctadds",
                                   "bconp", "bcbodys", "blsegs", "bfriction",
                                   "bctparas", "bctparms">>
      [] etype = "set_id" -> <<"sets">>
      [] etype = "method_id" -> <<"methods">>
      [] etype = "table_id" -> <<"tables">>

\* OutputWriter._get_new_ids_for_file
_get_new_ids_for_file(fids, mps, filepath, entity_type) ==
    {IF old_id \in DOMAIN mps[entity_type] THEN mps[entity_type][old_id] ELSE old_id :
        old_id \in fids[filepath][entity_type]}

\* OutputWriter._get_card_dict
_get_card_dict(card_type) ==
    LET entity_type == CARD_ENTITY_MAP(card_type) IN
    CASE entity_type = "nid" ->
            IF card_type = "SPOINT" THEN <<"spoints">> ELSE <<"nodes">>
      [] entity_type = "eid" ->
            IF card_type \in {"RBE2", "RBE3", "RBAR"} THEN <<"rigid_elements">>
            ELSE IF card_type \in {"CONM1", "CONM2", "CMASS1", "CMASS2",
                                   "CMASS3", "CMASS4"} THEN <<"masses">>
            ELSE IF card_type = "PLOTEL" THEN <<"plotels">>
            ELSE <<"elements">>
      [] entity_type = "pid" -> <<"properties">>
      [] entity_type = "mid" -> <<"materials">>
      [] entity_type = "cid" -> <<"coords">>
      [] entity_type = "spc_id" ->
            IF card_type = "SPCADD" THEN <<"spcadds">> ELSE <<"spcs">>
      [] entity_type = "mpc_id" ->
            IF card_type = "MPCADD" THEN <<"mpcadds">> ELSE <<"mpcs">>
      [] entity_type = "load_id" ->
            <<"loads">>
            \o (IF card_type = "DLOAD" THEN <<"dloads">> ELSE <<>>)
            \o (IF card_type \in {"RLOAD1", "RLOAD2", "TLOAD1", "TLOAD2"}
                THEN <<"dload_entries">> ELSE <<>>)
      [] entity_type = "contact_id" ->
            (CASE card_type = "BSURF" -> <<"bsurf">>
              [] card_type = "BSURFS" -> <<"bsurfs">>
              [] card_type = "BCTSET" -> <<"bctsets">>
              [] card_type = "BCTADD" -> <<"bctadds">>
              [] card_type = "BCONP" -> <<"bconp">>
              [] card_type = "BCBODY" -> <<"bcbodys">>
              [] card_type = "BLSEG" -> <<"blsegs">>
              [] card_type = "BFRIC" -> <<"bfriction">>
              [] card_type = "BCTPARA" -> <<"bctparas">>
              [] card_type = "BCTPARM" -> <<"bctparms">>)
      [] entity_type = "set_id" -> <<"sets">>
      [] entity_type = "method_id" -> <<"methods">>
      [] entity_type = "table_id" -> <<"tables">>
      [] OTHER -> <<>>

\* the concatenation of the sequences seqs[1..n]
RECURSIVE Concat(_, _)
Concat(seqs, n) == IF n = 0 THEN <<>> ELSE Concat(seqs, n - 1) \o seqs[n]

\* the cards of a dict, entry after entry, whose key the predicate selects
CardsWithKeyIn(dict, keys) ==
    Concat([i \in DOMAIN dict |->
               IF dict[i].key \in keys THEN dict[i].cards ELSE <<>>], Len(dict))

\* OutputWriter._get_cards_for_file
_get_cards_for_file(mdl, fids, mps, filepath, card_type) ==
    LET new_ids == _get_new_ids_for_file(fids, mps, filepath,
                                         CARD_ENTITY_MAP(card_type))
        dicts == _get_card_dict(card_type)
    IN  SelectSeq(Concat([k \in DOMAIN dicts |->
                             CardsWithKeyIn(mdl[dicts[k]], new_ids)], Len(dicts)),
                  LAMBDA c : c.type = card_type)

\* the attributes lines 1024-1032 try, in order, for the id of a written card
WRITTEN_ID_ATTRS == <<"eid", "nid", "pid", "mid", "cid", "sid", "tid", "conid",
                      "contact_id">>

\* getattr(card, a, None) of a scalar attribute
GetAttr(card, a) == IF HasAttr(card, a) THEN card.attrs[a][1] ELSE None

\* Python's "a or b or ...": the first truthy value, else the last value
RECURSIVE OrChain(_, _)
OrChain(card, i) ==
    LET v == GetAttr(card, WRITTEN_ID_ATTRS[i])
    IN  IF i = Len(WRITTEN_ID_ATTRS) \/ (v # None /\ v # 0) THEN v
        ELSE OrChain(card, i + 1)

\* the group_lines of one card group (lines 1015-1022)
GroupCards(mdl, fids, mps, filepath, card_group) ==
    Concat([k \in DOMAIN card_group |->
               _get_cards_for_file(mdl, fids, mps, filepath, card_group[k])],
           Len(card_group))

\* _write_ordered_cards with the groups of CARD_ORDER taken last to first
_write_ordered_cards_reversed(mdl, fids, mps, filepath) ==
    Concat([g \in DOMAIN CARD_ORDER |->
               GroupCards(mdl, fids, mps, filepath, CARD_ORDER[Len(CARD_ORDER) + 1 - g])],
           Len(CARD_ORDER))

\* OutputWriter._write_ordered_cards: the cards written, in order
_write_ordered_cards(mdl, fids, mps, filepath) ==
    Concat([g \in DOMAIN CARD_ORDER |->
               GroupCards(mdl, fids, mps, filepath, CARD_ORDER[g])],
           Len(CARD_ORDER))

\* ... and the written_ids it returns
written_ids(mdl, fids, mps, filepath) ==
    LET cards == _write_ordered_cards(mdl, fids, mps, filepath)
    IN  [etype \in Range(ENTITY_TYPES) |->
            {OrChain(cards[k], 1) :
                k \in {j \in DOMAIN cards :
                          CARD_ENTITY_MAP(cards[j].type) = etype}} \ {None}]

\* the loop of lines 1057-1070 over the dicts dicts[1..n] of one family:
\* the cards written and the ids still remaining
RECURSIVE RemainingInDicts(_, _, _, _)
RemainingInDicts(mdl, dicts, n, remaining) ==
    IF n = 0 THEN [lines |-> <<>>, remaining |-> remaining]
    ELSE LET prev == RemainingInDicts(mdl, dicts, n - 1, remaining)
             d == mdl[dicts[n]]
         IN  [lines |-> prev.lines \o CardsWithKeyIn(d, prev.remaining),
              remaining |-> prev.remaining \ {d[i].key : i \in DOMAIN d}]

\* OutputWriter._write_remaining_cards
_write_remaining_cards(mdl, fids, mps, filepath, wids) ==
    Concat([k \in DOMAIN ENTITY_TYPES |->
               LET etype == ENTITY_TYPES[k]
                   new_ids == _get_new_ids_for_file(fids, mps, filepath, etype)
                   dicts == WRITER_MODEL_DICTS(etype)
               IN  RemainingInDicts(mdl, dicts, Len(dicts),
                                    new_ids \ wids[etype]).lines],
           Len(ENTITY_TYPES))

\* _write_include_file / _write_main_file: the bulk data cards of one output
\* file, the ordered section and the fallback section
WriteFile(mdl, fids, mps, filepath) ==
    [ordered |-> _write_ordered_cards(mdl, fids, mps, filepath),
     fallback |-> _write_remaining_cards(mdl, fids, mps, filepath,
                                         written_ids(mdl, fids, mps, filepath))]

\* OutputWriter.write
write(mdl, fids, mps) ==
    [f \in Files |-> WriteFile(mdl, fids, mps, f)]

NotWritten == [f \in Files |-> [ordered |-> <<>>, fallback |-> <<>>]]

-----------------------------------------------------------------------------
(* The input deck, IncludeFileParser and read_bdf *)

Card(t, uid, attrs) == [type |-> t, uid |-> uid, attrs |-> attrs]

\* a card of the input deck: the file its text is in, and whether the first
\* field after the card name is the card's own id (false for an id that is
\* listed further along the line, as the second id of "SPOINT 4 103")
Line(card, f, lexed) == [card |-> card, home |-> f, lexed |-> lexed]

\* the attribute that holds the primary id of a card
PrimaryAttr(t) ==
    CASE CARD_ENTITY_MAP(t) = "nid" -> "nid"
      [] CARD_ENTITY_MAP(t) = "eid" -> "eid"
      [] CARD_ENTITY_MAP(t) = "pid" -> "pid"
      [] CARD_ENTITY_MAP(t) = "mid" -> "mid"
      [] CARD_ENTITY_MAP(t) = "cid" -> "cid"
      [] CARD_ENTITY_MAP(t) \in {"spc_id", "mpc_id"} -> "conid"
      [] OTHER -> "sid"

PrimaryId(card) == card.attrs[PrimaryAttr(card.type)][1]

\* IncludeFileParser._classify_card over the lines of every file: file_ids
Catalog(deck) ==
    [f \in Files |-> [etype \in Range(ENTITY_TYPES) |->
        {PrimaryId(deck[i].card) :
            i \in {j \in DOMAIN deck : /\ deck[j].home = f
                                       /\ deck[j].lexed
                                       /\ CARD_ENTITY_MAP(deck[j].card.type) = etype
                                       /\ PrimaryId(deck[j].card) > 0}}]]

\* the basic coordinate system every pyNastran model holds at coords[0]
Coord0 == Card("CORD2R", 0, [cid |-> <<0>>, rid |-> <<0>>])

EmptyStore ==
    [d \in STORE_DICTS |->
        IF d = "coords" THEN <<[key |-> 0, cards |-> <<Coord0>>]>> ELSE <<>>]

\* model.read_bdf: the cards deck[1..n] added to the store
RECURSIVE read_bdf(_, _)
read_bdf(deck, n) ==
    IF n = 0 THEN EmptyStore
    ELSE LET mdl == read_bdf(deck, n - 1)
             c == deck[n].card
             d == _get_card_dict(c.type)[1]
         IN  [mdl EXCEPT ![d] = IF d \in LIST_DICTS
                                THEN DictExtend(@, PrimaryId(c), <<c>>)
                                ELSE DictPut(@, PrimaryId(c), <<c>>)]

\* the file whose catalog the parser entered the card's primary id in
Home(deck) ==
    [uid \in {deck[i].card.uid : i \in {j \in DOMAIN deck :
                  deck[j].lexed /\ PrimaryId(deck[j].card) > 0}} |->
        deck[CHOOSE i \in DOMAIN deck : deck[i].card.uid = uid].home]

\* every card of a store
CardsOf(mdl) ==
    UNION {UNION {Range(mdl[d][i].cards) : i \in DOMAIN mdl[d]} : d \in STORE_DICTS}

\* how many cards a dict holds
RECURSIVE CountCards(_, _)
CountCards(dict, n) ==
    IF n = 0 THEN 0 ELSE CountCards(dict, n - 1) + Len(dict[n].cards)

\* RenumberIncludesTool._auto_allocate: blocks of a file's range, one per
\* family the file owns ids of
EtypesPresent(fids, f) ==
    SelectSeq(ENTITY_TYPES, LAMBDA etype : fids[f][etype] # {})

_auto_allocate(fids, file_ranges) ==
    [f \in Files |->
        LET etypes_present == EtypesPresent(fids, f)
            n_types == Len(etypes_present)
            file_start == file_ranges[f][1]
            file_end == file_ranges[f][2]
        IN  [etype \in Range(ENTITY_TYPES) |->
                IF fids[f][etype] = {} THEN NoRange
                ELSE LET j == (CHOOSE k \in 1 .. n_types : etypes_present[k] = etype) - 1
                         block_size == (file_end - file_start + 1) \div n_types
                         block_start == file_start + j * block_size
                     IN  IF j = n_types - 1 THEN <<block_start, file_end>>
                         ELSE <<block_start, block_start + block_size - 1>>]]

NoMaps == [etype \in Range(ENTITY_TYPES) |-> EmptyMap]

-----------------------------------------------------------------------------
(* partition_bdf.py: partition_model *)

(***************************************************************************)
(* The model the partition engine reads is a record                        *)
(*   nodes          the set of GRID ids (model.nodes)                      *)
(*   elements       model.elements in dict order: [eid, type, nodes, pid]  *)
(*   rigid_elements model.rigid_elements in dict order: [eid, type, gn,    *)
(*                  Gmi]                                                   *)
(*   masses         model.masses in dict order: [eid, type, nid]           *)
(*   properties     the set of property ids (model.properties)             *)
(***************************************************************************)

_get_element_nodes(elem) == {n \in Range(elem.nodes) : n # None /\ n > 0}

_rbe2_independent_node(rbe2) == rbe2.gn

_rbe2_dependent_nodes(rbe2) == rbe2.Gmi

_get_rigid_nodes(rigid) ==
    IF rigid.type = "RBE2"
    THEN (IF _rbe2_independent_node(rigid) # None
          THEN {_rbe2_independent_node(rigid)} ELSE {})
         \cup Range(_rbe2_dependent_nodes(rigid))
    ELSE {}

_get_mass_nodes(mass_elem) == IF mass_elem.nid > 0 THEN {mass_elem.nid} ELSE {}

_cbush_nodes(elem) ==
    <<IF Len(elem.nodes) > 0 THEN elem.nodes[1] ELSE None,
      IF Len(elem.nodes) > 1 THEN elem.nodes[2] ELSE None>>

\* dict.get(eid) on a dict kept as a sequence of records with an eid field
HasEid(dict, eid) == \E i \in DOMAIN dict : dict[i].eid = eid
GetEid(dict, eid) == dict[CHOOSE i \in DOMAIN dict : dict[i].eid = eid]

_get_element_pid(pm, eid) ==
    IF HasEid(pm.elements, eid)
    THEN LET pid == GetEid(pm.elements, eid).pid
         IN  IF pid = None THEN None ELSE IF pid > 0 THEN pid ELSE None
    ELSE None

\* _find_part_for_nodes: max(votes, key=votes.get) returns the first part, in
\* the order the votes dict was filled, that has the most votes
_find_part_for_nodes(node_list, node_to_part) ==
    LET voters == {i \in DOMAIN node_list : node_list[i] \in DOMAIN node_to_part}
        votes(p) == Cardinality({i \in voters : node_to_part[node_list[i]] = p})
        best == Max({votes(node_to_part[node_list[i]]) : i \in voters})
    IN  IF voters = {} THEN None
        ELSE node_to_part[node_list[Min({i \in voters :
                             votes(node_to_part[node_list[i]]) = best})]]

\* Step 2 (lines 97-102): independent node -> the last RBE2 that has it
rbe2_by_ind_node(pm) ==
    LET rbe2s == {i \in DOMAIN pm.rigid_elements :
                     /\ pm.rigid_elements[i].type = "RBE2"
                     /\ _rbe2_independent_node(pm.rigid_elements[i]) # None}
    IN  [n \in {_rbe2_independent_node(pm.rigid_elements[i]) : i \in rbe2s} |->
            pm.rigid_elements[Max({i \in rbe2s :
                _rbe2_independent_node(pm.rigid_elements[i]) = n})]]

\* the chain of one CBUSH (lines 120-129)
RBE2Chain(elem, by_ind) ==
    LET ga == _cbush_nodes(elem)[1]
        gb == _cbush_nodes(elem)[2]
    IN  [cbush_eid |-> elem.eid, cbush_nodes |-> <<ga, gb>>,
         rbe2_a_eid |-> by_ind[ga].eid, rbe2_a_ind_node |-> ga,
         rbe2_a_dep_nodes |-> _rbe2_dependent_nodes(by_ind[ga]),
         rbe2_b_eid |-> by_ind[gb].eid, rbe2_b_ind_node |-> gb,
         rbe2_b_dep_nodes |-> _rbe2_dependent_nodes(by_ind[gb])]

\* whether lines 108-118 make a chain of an element
IsChainCbush(elem, by_ind) ==
    /\ elem.type = "CBUSH"
    /\ _cbush_nodes(elem)[2] # None /\ _cbush_nodes(elem)[2] # 0
    /\ _cbush_nodes(elem)[1] \in DOMAIN by_ind
    /\ _cbush_nodes(elem)[2] \in DOMAIN by_ind

\* chains, in the order of model.elements
FindChains(pm) ==
    LET by_ind == rbe2_by_ind_node(pm)
        cb == SelectSeq(pm.elements, LAMBDA e : IsChainCbush(e, by_ind))
    IN  [i \in DOMAIN cb |-> RBE2Chain(cb[i], by_ind)]

WallEids(chains) ==
    UNION {{chains[i].cbush_eid, chains[i].rbe2_a_eid, chains[i].rbe2_b_eid} :
              i \in DOMAIN chains}

WallNodes(chains) ==
    UNION {{chains[i].cbush_nodes[1], chains[i].cbush_nodes[2]} : i \in DOMAIN chains}

\* the BFS without the test of wall_nodes: it crosses the boundary nodes
RECURSIVE FloodFillThroughWalls(_, _, _, _)
FloodFillThroughWalls(pm, component, all_eids, wall_nodes) ==
    LET nodes_of(eid) == _get_element_nodes(GetEid(pm.elements, eid))
        reached == {e \in all_eids : \E c \in component :
                       nodes_of(c) \cap nodes_of(e) # {}}
    IN  IF reached \subseteq component THEN component
        ELSE FloodFillThroughWalls(pm, component \cup reached, all_eids, wall_nodes)

\* Step 3: the component the BFS of lines 145-158 collects from a seed
RECURSIVE FloodFill(_, _, _, _)
FloodFill(pm, component, all_eids, wall_nodes) ==
    LET nodes_of(eid) == _get_element_nodes(GetEid(pm.elements, eid))
        reached == {e \in all_eids : \E c \in component :
                       (nodes_of(c) \cap nodes_of(e)) \ wall_nodes # {}}
    IN  IF reached \subseteq component THEN component
        ELSE FloodFill(pm, component \cup reached, all_eids, wall_nodes)

\* raw_parts: one component per unvisited seed, seeds in sorted order
RECURSIVE RawParts(_, _, _, _)
RawParts(pm, unvisited, all_eids, wall_nodes) ==
    IF unvisited = {} THEN <<>>
    ELSE LET component == FloodFill(pm, {Min(unvisited)}, all_eids, wall_nodes)
         IN  <<component>> \o RawParts(pm, unvisited \ component, all_eids, wall_nodes)

\* lines 182-186: the dependent nodes of the chains that touch a node set
RECURSIVE WithChainDeps(_, _, _)
WithChainDeps(node_ids, chains, n) ==
    IF n = 0 THEN node_ids
    ELSE LET prev == WithChainDeps(node_ids, chains, n - 1)
             a == Range(chains[n].rbe2_a_dep_nodes)
             withA == IF a \cap prev # {} THEN prev \cup a ELSE prev
             b == Range(chains[n].rbe2_b_dep_nodes)
         IN  IF b \cap withA # {} THEN withA \cup b ELSE withA

\* A name is a sequence of characters.  str(n) of a number below ten:
Digit(n) == <<"0", "1", "2", "3", "4", "5", "6", "7", "8", "9">>[n + 1]

\* _derive_part_name (lines 431-441): the name in the comment of the first
\* property, in the order of the ids, whose comment holds one (prop_names[pid]
\* is what _parse_comment_name returns for the comment of the property, <<>>
\* for no name), and f"Part_{part_id:03d}" when there is none
_derive_part_name(pm, property_ids, part_id) ==
    LET named == {pid \in property_ids \cap DOMAIN pm.prop_names : pm.prop_names[pid] # <<>>}
    IN  IF named = {} THEN <<"P", "a", "r", "t", "_", "0", "0", Digit(part_id)>>
        ELSE pm.prop_names[Min(named)]

\* lines 189-197: a name that several parts have gets the suffix _1, _2, ...
\* in the order of the parts
Deduplicate(parts) ==
    [i \in DOMAIN parts |->
        LET name_counts == Cardinality({j \in DOMAIN parts : parts[j].name = parts[i].name})
            seen == Cardinality({j \in 1 .. i : parts[j].name = parts[i].name})
        IN  IF name_counts > 1 THEN [parts[i] EXCEPT !.name = @ \o <<"_", Digit(seen)>>]
            ELSE parts[i]]

\* Step 4: the Part objects before rigid and mass elements join them
BuildParts(pm, chains) ==
    LET all_eids == {pm.elements[i].eid : i \in DOMAIN pm.elements} \ WallEids(chains)
        raw_parts == RawParts(pm, all_eids, all_eids, WallNodes(chains))
        property_ids(i) == {_get_element_pid(pm, eid) : eid \in raw_parts[i]} \ {None}
    IN  Deduplicate(
          [i \in DOMAIN raw_parts |->
            [part_id |-> i, name |-> _derive_part_name(pm, property_ids(i), i),
             element_ids |-> raw_parts[i],
             node_ids |-> WithChainDeps(
                 UNION {_get_element_nodes(GetEid(pm.elements, eid)) : eid \in raw_parts[i]},
                 chains, Len(chains)),
             property_ids |-> property_ids(i)]])

\* lines 199-203: a node of several parts ends at the last of them
NodeToPart(parts) ==
    [nid \in UNION {parts[i].node_ids : i \in DOMAIN parts} |->
        Max({parts[i].part_id : i \in {j \in DOMAIN parts : nid \in parts[j].node_ids}})]

\* list(nids) of a set of node ids (small ints iterate in ascending order)
ListOf(nids) == SortedSeq(nids)

\* lines 205-220: the rigid and mass elements that vote themselves into a part
VotedEids(pm, wall_eids, node_to_part, part_id) ==
    {pm.rigid_elements[i].eid :
        i \in {j \in DOMAIN pm.rigid_elements :
                  /\ pm.rigid_elements[j].eid \notin wall_eids
                  /\ _find_part_for_nodes(ListOf(_get_rigid_nodes(pm.rigid_elements[j])),
                                          node_to_part) = part_id}}
    \cup
    {pm.masses[i].eid :
        i \in {j \in DOMAIN pm.masses :
                  _find_part_for_nodes(ListOf(_get_mass_nodes(pm.masses[j])),
                                       node_to_part) = part_id}}

\* the key of a chain that joins no joint
NoKey == <<>>

\* lines 226-236: the joint key of a chain, NoKey when the chain is skipped
JointKey(chain, node_to_part) ==
    LET part_a_id == _find_part_for_nodes(chain.rbe2_a_dep_nodes, node_to_part)
        part_b_id == _find_part_for_nodes(chain.rbe2_b_dep_nodes, node_to_part)
    IN  IF part_a_id = None \/ part_b_id = None THEN NoKey
        ELSE IF part_a_id = part_b_id THEN NoKey
        ELSE <<Min({part_a_id, part_b_id}), Max({part_a_id, part_b_id})>>

\* Python's order on (part_a_id, part_b_id)
KeyLess(a, b) == a[1] < b[1] \/ (a[1] = b[1] /\ a[2] < b[2])

RECURSIVE SortKeys(_)
SortKeys(S) ==
    IF S = {} THEN <<>>
    ELSE LET m == CHOOSE a \in S : \A b \in S \ {a} : KeyLess(a, b)
         IN  <<m>> \o SortKeys(S \ {m})

\* Step 5 and line 251: the joints, one per key, sorted by key
BuildJoints(pm, chains, node_to_part) ==
    LET keys == SortKeys({JointKey(chains[i], node_to_part) : i \in DOMAIN chains} \ {NoKey})
    IN  [k \in DOMAIN keys |->
            LET mine == SelectSeq(chains, LAMBDA c : JointKey(c, node_to_part) = keys[k])
            IN  [part_a_id |-> keys[k][1], part_b_id |-> keys[k][2],
                 chains |-> mine,
                 pbush_pids |-> {_get_element_pid(pm, mine[i].cbush_eid) :
                                    i \in DOMAIN mine} \ {None},
                 contact_pairs |-> <<>>]]

\* the warnings of lines 228-235 and 253-263
PartitionWarnings(pm, parts, chains, node_to_part) ==
    {<<"unassigned", chains[i].cbush_eid>> :
        i \in {j \in DOMAIN chains :
                  \/ _find_part_for_nodes(chains[j].rbe2_a_dep_nodes, node_to_part) = None
                  \/ _find_part_for_nodes(chains[j].rbe2_b_dep_nodes, node_to_part) = None}}
    \cup
    {<<"same_part", chains[i].cbush_eid>> :
        i \in {j \in DOMAIN chains :
                  LET a == _find_part_for_nodes(chains[j].rbe2_a_dep_nodes, node_to_part)
                      b == _find_part_for_nodes(chains[j].rbe2_b_dep_nodes, node_to_part)
                  IN  a # None /\ b # None /\ a = b}}
    \cup
    (IF pm.nodes \ (UNION {parts[i].node_ids : i \in DOMAIN parts} \cup WallNodes(chains)) # {}
     THEN {<<"orphans", 0>>} ELSE {})

partition_model(pm) ==
    LET chains == FindChains(pm)
        parts0 == BuildParts(pm, chains)
        node_to_part == NodeToPart(parts0)
        parts == [i \in DOMAIN parts0 |->
                     [parts0[i] EXCEPT !.element_ids =
                         @ \cup VotedEids(pm, WallEids(chains), node_to_part, i)]]
    IN  [parts |-> parts,
         joints |-> BuildJoints(pm, chains, node_to_part),
         warnings |-> PartitionWarnings(pm, parts, chains, node_to_part)]

-----------------------------------------------------------------------------
(* partition_bdf.py: merge_parts *)

\* sorted(parts, key=part_id) of a set of parts with distinct ids
RECURSIVE SortParts(_)
SortParts(S) ==
    IF S = {} THEN <<>>
    ELSE LET m == CHOOSE a \in S : \A b \in S : a.part_id <= b.part_id
         IN  <<m>> \o SortParts(S \ {m})

\* sorted(joints, key=(part_a_id, part_b_id)): stable insertion of joints[1..n]
RECURSIVE SortJoints(_, _)
SortJoints(joints, n) ==
    IF n = 0 THEN <<>>
    ELSE LET prev == SortJoints(joints, n - 1)
             j == joints[n]
             before == SelectSeq(prev, LAMBDA x :
                          ~KeyLess(<<j.part_a_id, j.part_b_id>>,
                                   <<x.part_a_id, x.part_b_id>>))
             after == SelectSeq(prev, LAMBDA x :
                          KeyLess(<<j.part_a_id, j.part_b_id>>,
                                  <<x.part_a_id, x.part_b_id>>))
         IN  before \o <<j>> \o after

\* lines 560-564
IsAbsorbed(joint, merge_set) ==
    joint.part_a_id \in merge_set /\ joint.part_b_id \in merge_set

\* AbsorbedEids without the CBUSH
AbsorbedEidsNoCbush(joint) ==
    UNION {{joint.chains[i].rbe2_a_eid, joint.chains[i].rbe2_b_eid} :
              i \in DOMAIN joint.chains}

\* AbsorbedEids without the RBE2 on the B side
AbsorbedEidsNoRbe2B(joint) ==
    UNION {{joint.chains[i].cbush_eid, joint.chains[i].rbe2_a_eid} :
              i \in DOMAIN joint.chains}

\* lines 567-571: the element ids an absorbed joint brings into the merged part
AbsorbedEids(joint) ==
    UNION {{joint.chains[i].cbush_eid, joint.chains[i].rbe2_a_eid,
            joint.chains[i].rbe2_b_eid} : i \in DOMAIN joint.chains}

\* lines 572-575
AbsorbedNodes(joint) ==
    UNION {{joint.chains[i].cbush_nodes[1], joint.chains[i].cbush_nodes[2]}
              \cup Range(joint.chains[i].rbe2_a_dep_nodes)
              \cup Range(joint.chains[i].rbe2_b_dep_nodes) : i \in DOMAIN joint.chains}

\* Rekey without the swap of lines 584-586
RekeyNoSwap(joint, merge_set, merged_id) ==
    LET a == IF joint.part_a_id \in merge_set THEN merged_id ELSE joint.part_a_id
        b == IF joint.part_b_id \in merge_set THEN merged_id ELSE joint.part_b_id
    IN  [joint EXCEPT !.part_a_id = a, !.part_b_id = b]

\* lines 579-586
Rekey(joint, merge_set, merged_id) ==
    LET a == IF joint.part_a_id \in merge_set THEN merged_id ELSE joint.part_a_id
        b == IF joint.part_b_id \in merge_set THEN merged_id ELSE joint.part_b_id
    IN  [joint EXCEPT !.part_a_id = IF a > b THEN b ELSE a,
                      !.part_b_id = IF a > b THEN a ELSE b]

merge_parts(res, merge_set) ==
    LET merging == SelectSeq(res.parts, LAMBDA p : p.part_id \in merge_set)
        base == merging[CHOOSE i \in DOMAIN merging :
                            \A k \in DOMAIN merging : merging[i].part_id <= merging[k].part_id]
        absorbed_joints == SelectSeq(res.joints, LAMBDA j : IsAbsorbed(j, merge_set))
        remaining_joints == SelectSeq(res.joints, LAMBDA j : ~IsAbsorbed(j, merge_set))
        merged ==
            [part_id |-> base.part_id, name |-> base.name,
             element_ids |-> UNION {merging[i].element_ids : i \in DOMAIN merging}
                 \cup UNION {AbsorbedEids(absorbed_joints[i]) : i \in DOMAIN absorbed_joints},
             node_ids |-> UNION {merging[i].node_ids : i \in DOMAIN merging}
                 \cup UNION {AbsorbedNodes(absorbed_joints[i]) : i \in DOMAIN absorbed_joints},
             property_ids |-> UNION {merging[i].property_ids : i \in DOMAIN merging}
                 \cup UNION {absorbed_joints[i].pbush_pids : i \in DOMAIN absorbed_joints}]
        rekeyed == [i \in DOMAIN remaining_joints |->
                       Rekey(remaining_joints[i], merge_set, base.part_id)]
    IN  IF Cardinality(merge_set) < 2 \/ Len(merging) < 2 THEN res
        ELSE [res EXCEPT
                 !.parts = SortParts({res.parts[i] : i \in
                               {k \in DOMAIN res.parts : res.parts[k].part_id \notin merge_set}}
                               \cup {merged}),
                 !.joints = SortJoints(rekeyed, Len(rekeyed))]

-----------------------------------------------------------------------------
(* partition_bdf.py: write_partition *)

\* _safe_filename (lines 925-927) of a name that neither starts nor ends with
\* a blank: lower case, and "_" for a character that is no word character,
\* "-" or "."
_safe_filename(name) ==
    [i \in DOMAIN name |->
        CASE name[i] = "A" -> "a"
          [] name[i] = "P" -> "p"
          [] name[i] = " " -> "_"
          [] OTHER -> name[i]]

\* the file of a part (lines 672-743): the GRIDs and elements written to it
PartFile(pm, part) ==
    [kind |-> "part", name |-> _safe_filename(part.name) \o <<".bdf">>,
     nodes |-> part.node_ids \cap pm.nodes,
     elems |-> {pm.elements[i].eid : i \in {j \in DOMAIN pm.elements :
                                               pm.elements[j].eid \in part.element_ids}}
               \cup
               {pm.rigid_elements[i].eid : i \in {j \in DOMAIN pm.rigid_elements :
                                               pm.rigid_elements[j].eid \in part.element_ids}}
               \cup
               {pm.masses[i].eid : i \in {j \in DOMAIN pm.masses :
                   /\ _get_mass_nodes(pm.masses[j]) # {}
                   /\ _get_mass_nodes(pm.masses[j]) \subseteq part.node_ids}},
     props |-> {}]

\* part_names.get(part_id, f'Part_{part_id}')
PartName(res, part_id) ==
    IF \E i \in DOMAIN res.parts : res.parts[i].part_id = part_id
    THEN res.parts[CHOOSE i \in DOMAIN res.parts : res.parts[i].part_id = part_id].name
    ELSE <<"P", "a", "r", "t", "_", Digit(part_id)>>

\* the file of a joint (lines 746-790)
JointFile(pm, res, joint) ==
    [kind |-> "joint",
     name |-> _safe_filename(PartName(res, joint.part_a_id) \o <<"-", "t", "o", "-">>
                                \o PartName(res, joint.part_b_id)) \o <<".bdf">>,
     nodes |-> {},
     elems |-> {joint.chains[i].cbush_eid :
                   i \in {j \in DOMAIN joint.chains :
                             HasEid(pm.elements, joint.chains[j].cbush_eid)}}
               \cup
               {eid \in UNION {{joint.chains[i].rbe2_a_eid, joint.chains[i].rbe2_b_eid} :
                                  i \in DOMAIN joint.chains} :
                   HasEid(pm.rigid_elements, eid)},
     props |-> joint.pbush_pids \cap pm.properties]

\* shared.bdf (lines 793-844): the properties that are no joint's PBUSH
SharedFile(pm, res) ==
    [kind |-> "shared", name |-> <<"shared", ".bdf">>, nodes |-> {}, elems |-> {},
     props |-> pm.properties \ UNION {res.joints[i].pbush_pids : i \in DOMAIN res.joints}]

\* master.bdf (lines 847-888)
MasterFile ==
    [kind |-> "master", name |-> <<"master", ".bdf">>, nodes |-> {}, elems |-> {}, props |-> {}]

\* the files in the order write_partition opens them for writing
WriteSequence(pm, res) ==
    [i \in DOMAIN res.parts |-> PartFile(pm, res.parts[i])]
    \o [i \in DOMAIN res.joints |-> JointFile(pm, res, res.joints[i])]
    \o <<SharedFile(pm, res), MasterFile>>

\* write_partition: the output directory; a file written twice holds what was
\* written last
write_partition(pm, res) ==
    LET w == WriteSequence(pm, res)
    IN  {w[i] : i \in {j \in DOMAIN w : \A k \in DOMAIN w : k > j => w[k].name # w[j].name}}

-----------------------------------------------------------------------------
(* partition_gui.py: PartitionTool and its background threads *)

\* The window is the record [bdf_path, model, result, partition_btn, write_btn,
\* merge_btn, threads].  A path is a number, 0 for None.  A model is the path
\* it was read from, 0 for None.  A PartitionResult is [path, names, merged]:
\* the path of the model it partitions, the names of its parts (0 as derived,
\* n after the n-th text was typed into the Name column) and whether parts
\* were merged; NoGuiResult is None.  A thread is [kind, path, step, used]:
\* path is the path variable of the closure of _do_partition, step is
\* "started", "working" or "finished", used is what work_fn read from the
\* fields of the window.
NoGuiResult == [path |-> 0, names |-> 0, merged |-> FALSE]

NotRead == [model |-> 0, result |-> NoGuiResult, bdf_path |-> 0]

GuiStart ==
    [bdf_path |-> 0, model |-> 0, result |-> NoGuiResult,
     partition_btn |-> FALSE, write_btn |-> FALSE, merge_btn |-> FALSE, threads |-> <<>>]

\* _run_in_background (lines 185-209): the buttons are disabled and the thread
\* is started
_run_in_background(g, kind) ==
    [g EXCEPT !.partition_btn = FALSE, !.write_btn = FALSE, !.merge_btn = FALSE,
              !.threads = Append(@, [kind |-> kind, path |-> g.bdf_path,
                                     step |-> "started", used |-> NotRead])]

\* _restore_buttons (lines 211-232)
_restore_buttons(g) ==
    [g EXCEPT !.partition_btn = (g.bdf_path # 0),
              !.write_btn = (g.result # NoGuiResult),
              !.merge_btn = (g.result # NoGuiResult)]

\* _browse_bdf (lines 236-258) when a file is chosen
_browse_bdf(g, path) ==
    _restore_buttons([g EXCEPT !.bdf_path = path, !.result = NoGuiResult])

\* _do_partition (lines 262-304) up to the start of the thread
_do_partition(g) ==
    IF g.bdf_path = 0 THEN g ELSE _run_in_background(g, "partition")

\* _on_name_edited (lines 340-350): the names of the sheet are written into
\* the parts of the result
_on_name_edited(g, names) ==
    IF g.result = NoGuiResult THEN g ELSE [g EXCEPT !.result.names = names]

\* _merge_selected (lines 354-389) with two rows selected and the question
\* answered with yes
_merge_selected(g) ==
    IF g.result = NoGuiResult \/ g.result.merged THEN g
    ELSE [g EXCEPT !.result.merged = TRUE]

\* _write_output (lines 450-505) up to the start of the thread
_write_output(g) ==
    IF g.result = NoGuiResult \/ g.model = 0 THEN g ELSE _run_in_background(g, "write")

\* _worker (lines 195-199), a step of thread i: work_fn of a write reads
\* self._model, self._result and self._bdf_path when it starts (line 469);
\* work_fn of a partition reads the file of its path
_worker(g, i) ==
    LET t == g.threads[i]
    IN  IF t.step = "started"
        THEN [g EXCEPT !.threads[i].step = "working",
                       !.threads[i].used =
                           IF t.kind = "write"
                           THEN [model |-> g.model, result |-> g.result,
                                 bdf_path |-> g.bdf_path]
                           ELSE [NotRead EXCEPT !.bdf_path = t.path]]
        ELSE [g EXCEPT !.threads[i].step = "finished"]

\* _poll (lines 201-205) of thread i when the thread is no longer alive:
\* done_fn (274-301 of a partition, 473-503 of a write) is called and the
\* poll is not scheduled again
_poll(g, i) ==
    LET t == g.threads[i]
        rest == [g EXCEPT !.threads = SubSeq(@, 1, i - 1) \o SubSeq(@, i + 1, Len(@))]
    IN  IF t.kind = "partition"
        THEN _restore_buttons([rest EXCEPT !.model = t.path,
                                           !.result = [path |-> t.path, names |-> 0,
                                                       merged |-> FALSE]])
        ELSE _restore_buttons(rest)

-----------------------------------------------------------------------------
(* Text files and IncludeFileParser (bdf_utils.py) at the level of lines *)

\* A file on disk is a record [exists, lines] (exists is os.path.isfile).  A
\* line is a record: kind says what the line is in the deck ("exec", "cend",
\* "case", "begin_bulk", "include", "card" for the primary line of a card,
\* "cont" for a continuation line, "comment", "blank", "enddata"); name is the
\* first non-blank field of a card or continuation line ("+" and "*" stand
\* for fields that start with these characters, "" for a free-field
\* continuation that starts with a comma) and the path of an INCLUDE line; id
\* is the field after the name of a primary line; text is the token sequence
\* of a case-control line; uid tells equal lines apart.
TextLine(kind, name, id, uid) ==
    [kind |-> kind, name |-> name, id |-> id, text |-> <<>>, uid |-> uid]

\* IncludeFileParser._extract_card_name(stripped): the first field of the
\* stripped line, whatever the line is
_extract_card_name(l) ==
    CASE l.kind \in {"card", "cont"} -> l.name
      [] l.kind = "begin_bulk" -> "BEGIN"
      [] l.kind = "enddata" -> "ENDDATA"
      [] OTHER -> "TEXT"

\* the state of the loop of _parse_file when it starts on a file
ScanStart(is_main) ==
    [past_exec |-> ~is_main, in_bulk |-> ~is_main, in_passthrough_card |-> FALSE,
     stopped |-> FALSE, ids |-> [etype \in Range(ENTITY_TYPES) |-> {}],
     passthrough |-> <<>>, includes |-> <<>>]

\* the loop body without the test of in_bulk: a card line is classified
\* wherever it stands
ScanLineAnywhere(s, l) ==
    LET card_name == _extract_card_name(l)
        entity_type == CARD_ENTITY_MAP(card_name)
    IN  IF s.stopped THEN s
        ELSE IF ~s.past_exec /\ l.kind = "cend" THEN [s EXCEPT !.past_exec = TRUE]
        ELSE IF ~s.in_bulk /\ l.kind = "begin_bulk" THEN [s EXCEPT !.in_bulk = TRUE]
        ELSE IF s.in_bulk /\ l.kind = "enddata" THEN [s EXCEPT !.stopped = TRUE]
        ELSE IF l.kind = "include"
             THEN [s EXCEPT !.includes = Append(@, l.name),
                            !.in_passthrough_card = FALSE]
        ELSE IF l.kind \notin {"blank", "comment"}
             THEN IF card_name \in {"+", "*"}
                  THEN IF s.in_passthrough_card
                       THEN [s EXCEPT !.passthrough = Append(@, l)]
                       ELSE s
                  ELSE IF card_name # "" /\ entity_type # "none"
                  THEN [s EXCEPT !.in_passthrough_card = FALSE,
                                 !.ids[entity_type] =
                                     IF l.id # None /\ l.id > 0 THEN @ \cup {l.id} ELSE @]
                  ELSE IF card_name # ""
                  THEN [s EXCEPT !.in_passthrough_card = TRUE,
                                 !.passthrough = Append(@, l)]
                  ELSE s
             ELSE s

\* one iteration of the loop (lines 202-241) on line l
ScanLine(s, l) ==
    LET card_name == _extract_card_name(l)
        entity_type == CARD_ENTITY_MAP(card_name)
    IN  IF s.stopped THEN s
        ELSE IF ~s.past_exec /\ l.kind = "cend" THEN [s EXCEPT !.past_exec = TRUE]
        ELSE IF ~s.in_bulk /\ l.kind = "begin_bulk" THEN [s EXCEPT !.in_bulk = TRUE]
        ELSE IF s.in_bulk /\ l.kind = "enddata" THEN [s EXCEPT !.stopped = TRUE]
        ELSE IF l.kind = "include"
             THEN [s EXCEPT !.includes = Append(@, l.name),
                            !.in_passthrough_card = FALSE]
        ELSE IF s.in_bulk /\ l.kind \notin {"blank", "comment"}
             THEN IF card_name \in {"+", "*"}
                  THEN IF s.in_passthrough_card
                       THEN [s EXCEPT !.passthrough = Append(@, l)]
                       ELSE s
                  ELSE IF card_name # "" /\ entity_type # "none"
                  THEN [s EXCEPT !.in_passthrough_card = FALSE,
                                 !.ids[entity_type] =
                                     IF l.id # None /\ l.id > 0 THEN @ \cup {l.id} ELSE @]
                  ELSE IF card_name # ""
                  THEN [s EXCEPT !.in_passthrough_card = TRUE,
                                 !.passthrough = Append(@, l)]
                  ELSE s
             ELSE s

\* the loop over the first n lines of a file (the state after n - 1 lines is
\* bound as a value, so that it is computed once)
RECURSIVE ScanFile(_, _, _)
ScanFile(lines, n, is_main) ==
    IF n = 0 THEN ScanStart(is_main)
    ELSE CHOOSE r \in {ScanLine(s, lines[n]) : s \in {ScanFile(lines, n - 1, is_main)}} :
            TRUE

\* the parser before parse(): its fields, the calls of _parse_file made so
\* far, and the calls in progress (each with the INCLUDE targets it has still
\* to descend into; the bottom frame is parse() itself)
ParserStart(main_path) ==
    [all_files |-> <<>>, file_ids |-> EmptyMap, file_tree |-> EmptyMap,
     file_passthrough |-> EmptyMap, calls |-> <<>>,
     stack |-> <<[file |-> "", todo |-> <<main_path>>]>>]

\* _parse_file without the guard on file_ids: a file already parsed is
\* entered again
EnterFileAgain(ps, dsk, filepath, is_main) ==
    LET file == dsk[filepath]
        scan == IF file.exists THEN ScanFile(file.lines, Len(file.lines), is_main)
                ELSE ScanStart(is_main)
    IN  [ps EXCEPT
            !.calls = Append(@, filepath),
            !.all_files = Append(@, filepath),
            !.file_ids = (filepath :> scan.ids) @@ @,
            !.file_passthrough = (filepath :> scan.passthrough) @@ @,
            !.file_tree = (filepath :> scan.includes) @@ @,
            !.stack = <<[file |-> filepath, todo |-> scan.includes]>> \o @]

\* one call of _parse_file(filepath): the guard on file_ids, the bookkeeping,
\* the isfile test and the scan of the lines
EnterFile(ps, dsk, filepath, is_main) ==
    LET file == dsk[filepath]
        scan == IF file.exists THEN ScanFile(file.lines, Len(file.lines), is_main)
                ELSE ScanStart(is_main)
        called == [ps EXCEPT !.calls = Append(@, filepath)]
    IN  IF filepath \in DOMAIN ps.file_ids THEN called
        ELSE [called EXCEPT
                 !.all_files = Append(@, filepath),
                 !.file_ids = (filepath :> scan.ids) @@ @,
                 !.file_passthrough = (filepath :> scan.passthrough) @@ @,
                 !.file_tree = (filepath :> scan.includes) @@ @,
                 !.stack = <<[file |-> filepath, todo |-> scan.includes]>> \o @]

\* the next step of the parse: return from the call on top of the stack when
\* it has nothing left to descend into, else descend into its next INCLUDE
ParseStep(ps, dsk) ==
    LET top == Head(ps.stack)
    IN  IF top.todo = <<>> THEN [ps EXCEPT !.stack = Tail(@)]
        ELSE EnterFile([ps EXCEPT !.stack = <<[top EXCEPT !.todo = Tail(@)]>> \o Tail(@)],
                       dsk, Head(top.todo), top.file = "")

\* IncludeFileParser.parse, run from parser state ps to its end
RECURSIVE parse(_, _)
parse(ps, dsk) ==
    IF ps.stack = <<>> THEN ps ELSE parse(ParseStep(ps, dsk), dsk)

-----------------------------------------------------------------------------
(* CaseControlRenumberer *)

\* The text of a case-control line is a sequence of tokens [ch, num]: ch is
\* one character (a letter stands for both of its cases, the patterns being
\* compiled with IGNORECASE), and a maximal run of digits that stands where a
\* number may stand is one token with ch = "#" and num its value.
Chars(s) == [i \in DOMAIN s |-> [ch |-> s[i], num |-> None]]

Number(n) == [ch |-> "#", num |-> n]

\* CaseControlRenumberer.ENTRIES, in order
ENTRIES ==
    <<[keyword |-> <<"L", "O", "A", "D">>, map_key |-> "load_id"],
      [keyword |-> <<"S", "P", "C">>, map_key |-> "spc_id"],
      [keyword |-> <<"M", "P", "C">>, map_key |-> "mpc_id"],
      [keyword |-> <<"M", "E", "T", "H", "O", "D">>, map_key |-> "method_id"],
      [keyword |-> <<"C", "M", "E", "T", "H", "O", "D">>, map_key |-> "method_id"],
      [keyword |-> <<"D", "L", "O", "A", "D">>, map_key |-> "load_id"],
      [keyword |-> <<"F", "R", "E", "Q">>, map_key |-> "table_id"],
      [keyword |-> <<"T", "S", "T", "E", "P">>, map_key |-> "table_id"],
      [keyword |-> <<"S", "D", "A", "M", "P">>, map_key |-> "table_id"],
      [keyword |-> <<"D", "E", "F", "O", "R", "M">>, map_key |-> "load_id"],
      [keyword |-> <<"S", "U", "P", "O", "R", "T", "1">>, map_key |-> "set_id"]>>

\* TEMP_RE, TEMPERATURE\s*\(\s*(?:LOAD|INITIAL)\s*\)\s*=\s*(\d+), as the
\* alternatives of each literal piece; \s* stands between the pieces and
\* before the number
TEMP_RE ==
    <<{<<"T", "E", "M", "P", "E", "R", "A", "T", "U", "R", "E">>}, {<<"(">>},
      {<<"L", "O", "A", "D">>, <<"I", "N", "I", "T", "I", "A", "L">>}, {<<")">>},
      {<<"=">>}>>

\* \s*: the first position from p on that holds no white space
RECURSIVE SkipSpace(_, _)
SkipSpace(text, p) ==
    IF p <= Len(text) /\ text[p].ch = " " THEN SkipSpace(text, p + 1) ELSE p

\* the position of the number (group 2) when pieces k.. of the pattern match
\* at position p, and 0 when they do not
RECURSIVE MatchAt(_, _, _, _)
MatchAt(text, p, pattern, k) ==
    LET LiteralAt(lit) == /\ p + Len(lit) - 1 <= Len(text)
                          /\ \A i \in DOMAIN lit : text[p + i - 1].ch = lit[i]
    IN  IF k > Len(pattern)
        THEN IF p <= Len(text) /\ text[p].ch = "#" THEN p ELSE 0
        ELSE IF \E lit \in pattern[k] : LiteralAt(lit)
             THEN LET lit == CHOOSE x \in pattern[k] : LiteralAt(x)
                  IN  MatchAt(text, SkipSpace(text, p + Len(lit)), pattern, k + 1)
             ELSE 0

\* pattern.search(line) followed by the replacement of group 2: the leftmost
\* match has its number sent through id_map.get(old_id, old_id)
SearchAndReplace(text, pattern, id_map) ==
    LET starts == {p \in DOMAIN text : MatchAt(text, p, pattern, 1) # 0}
    IN  IF starts = {} THEN text
        ELSE LET q == MatchAt(text, Min(starts), pattern, 1)
                 old_id == text[q].num
             IN  [text EXCEPT ![q] = Number(IF old_id \in DOMAIN id_map
                                            THEN id_map[old_id] ELSE old_id)]

\* CaseControlRenumberer._process_line after n steps: step k <= Len(ENTRIES)
\* is the loop body on ENTRIES[k] (keyword\s*[=(]\s*(\d+)), the step after
\* them is the TEMPERATURE entry
RECURSIVE _process_line(_, _, _, _)
_process_line(text, mps, inc, n) ==
    IF n = 0 THEN text
    ELSE LET line == _process_line(text, mps, inc, n - 1)
             map_key == IF n <= Len(ENTRIES) THEN ENTRIES[n].map_key ELSE "load_id"
             pattern == IF n <= Len(ENTRIES)
                        THEN <<{ENTRIES[n].keyword}, {<<"=">>, <<"(">>}>>
                        ELSE TEMP_RE
         IN  IF (~inc /\ map_key \in {"spc_id", "mpc_id", "load_id"})
                \/ mps[map_key] = EmptyMap
             THEN line
             ELSE SearchAndReplace(line, pattern, mps[map_key])

\* CaseControlRenumberer.renumber_case_control on the lines of a file
renumber_case_control(case_control_lines, mps, inc) ==
    [i \in DOMAIN case_control_lines |->
        [case_control_lines[i] EXCEPT
            !.text = _process_line(@, mps, inc, Len(ENTRIES) + 1)]]

-----------------------------------------------------------------------------
(* OutputWriter: the lines of the files it writes *)

\* OutputWriter._read_sections: the lines up to and including CEND, and the
\* lines after it up to BEGIN BULK
_read_sections(file) ==
    LET lines == file.lines
        cends == {i \in DOMAIN lines : lines[i].kind = "cend"}
        n_exec == IF cends = {} THEN Len(lines) ELSE Min(cends)
        bulks == {i \in DOMAIN lines : i > n_exec /\ lines[i].kind = "begin_bulk"}
        n_case == IF bulks = {} THEN Len(lines) ELSE Min(bulks) - 1
    IN  IF ~file.exists THEN [exec_lines |-> <<>>, case_lines |-> <<>>]
        ELSE [exec_lines |-> SubSeq(lines, 1, n_exec),
              case_lines |-> SubSeq(lines, n_exec + 1, n_case)]

\* OutputWriter._write_include_file: the header comment, the cards selected
\* through CARD_ORDER, and the fallback cards behind their marker; wf is
\* what _write_ordered_cards and _write_remaining_cards returned for the file
_write_include_file(wf, orig_path) ==
    LET text(cards) == [i \in DOMAIN cards |->
            TextLine("card", cards[i].type, PrimaryId(cards[i]), cards[i].uid)]
    IN  <<TextLine("comment", orig_path, None, 0)>>
        \o text(wf.ordered)
        \o (IF wf.fallback # <<>>
            THEN <<TextLine("comment", "fallback", None, 0)>> \o text(wf.fallback)
            ELSE <<>>)

\* OutputWriter._write_main_file: executive lines, renumbered case-control
\* lines, BEGIN BULK, one INCLUDE per entry of file_tree[main] that was
\* written as an include file, the cards, ENDDATA
_write_main_file(dsk, prs, mps, inc, wf, orig_path) ==
    LET sections == _read_sections(dsk[orig_path])
        include_out_paths == Range(Tail(prs.all_files))
        tree == IF orig_path \in DOMAIN prs.file_tree THEN prs.file_tree[orig_path]
                ELSE <<>>
        kept == SelectSeq(tree, LAMBDA p : p \in include_out_paths)
    IN  sections.exec_lines
        \o renumber_case_control(sections.case_lines, mps, inc)
        \o <<TextLine("begin_bulk", "", None, 0)>>
        \o [i \in DOMAIN kept |-> TextLine("include", kept[i], None, 0)]
        \o Tail(_write_include_file(wf, orig_path))
        \o <<TextLine("enddata", "", None, 0)>>

-----------------------------------------------------------------------------
(* mass_scale.py *)

\* The model the mass scale tool reads is a record of the dictionaries
\* materials, properties, masses and elements, each a function from id to
\* card.  A card is [type, id, uid, val]; val holds the scalars of the card:
\* <<rho>> of a material, <<nsm>> of a property or a CONROD, <<mass, I>> of a
\* CONM2 (I stands for every entry of the inertia list), <<mass>> of a CMASS2,
\* and <<None>> when the card has no such attribute or the field is blank.
_NSM_PROP_TYPES == {"PSHELL", "PCOMP", "PCOMPG", "PBAR", "PBARL", "PBEAM", "PBEAML", "PROD"}

_RHO_MAT_TYPES == {"MAT1", "MAT8", "MAT9"}

\* model.read_bdf in _open_bdf: every card in the dictionary of its class
ReadMassModel(cards) ==
    LET dict_of(c) ==
            CASE CARD_ENTITY_MAP(c.type) = "mid" -> "materials"
              [] CARD_ENTITY_MAP(c.type) = "pid" -> "properties"
              [] c.type \in {"CONM1", "CONM2", "CMASS1", "CMASS2", "CMASS3", "CMASS4"} ->
                    "masses"
              [] OTHER -> "elements"
    IN  [d \in {"materials", "properties", "masses", "elements"} |->
            [id \in {c.id : c \in {x \in cards : dict_of(x) = d}} |->
                CHOOSE c \in cards : dict_of(c) = d /\ c.id = id]]

\* _build_ifile_lookup: the index in all_files of the last file that
\* catalogues the id under etype (index 1 is the main file, Python's 0), and
\* the default of the .get(id, 0) of _compute_groups
IfileOf(prs, etype, id) ==
    LET owners == {i \in DOMAIN prs.all_files :
                      id \in prs.file_ids[prs.all_files[i]][etype]}
    IN  IF owners = {} THEN 1 ELSE Max(owners)

\* _compute_groups: one group per file, in the order of all_files
_compute_groups(mdl, prs) ==
    LET scalable(x) == x # None /\ x # 0
    IN  [i \in DOMAIN prs.all_files |->
            [ifile |-> i, filepath |-> prs.all_files[i],
             material_ids |-> {mid \in DOMAIN mdl.materials :
                                  /\ mdl.materials[mid].type \in _RHO_MAT_TYPES
                                  /\ scalable(mdl.materials[mid].val[1])
                                  /\ IfileOf(prs, "mid", mid) = i},
             property_ids |-> {pid \in DOMAIN mdl.properties :
                                  /\ mdl.properties[pid].type \in _NSM_PROP_TYPES
                                  /\ scalable(mdl.properties[pid].val[1])
                                  /\ IfileOf(prs, "pid", pid) = i},
             mass_elem_ids |-> {eid \in DOMAIN mdl.masses : IfileOf(prs, "eid", eid) = i},
             conrod_ids |-> {eid \in DOMAIN mdl.elements :
                                /\ mdl.elements[eid].type = "CONROD"
                                /\ IfileOf(prs, "eid", eid) = i}]]

\* the body of the loop of _apply_scale_factors_inplace with every material
\* of the model scaled, whatever group it is in
ScaleGroupEveryMaterial(mdl, group, s) ==
    LET times(x) == IF x # None /\ x # 0 THEN x * s ELSE x
        first(c) == [c EXCEPT !.val[1] = times(c.val[1])]
        present(x) == IF x # None THEN x * s ELSE x
    IN  [materials |-> [mid \in DOMAIN mdl.materials |-> first(mdl.materials[mid])],
         properties |-> [pid \in DOMAIN mdl.properties |->
                            IF pid \in group.property_ids THEN first(mdl.properties[pid])
                            ELSE mdl.properties[pid]],
         elements |-> [eid \in DOMAIN mdl.elements |->
                          IF eid \in group.conrod_ids THEN first(mdl.elements[eid])
                          ELSE mdl.elements[eid]],
         masses |-> [eid \in DOMAIN mdl.masses |->
                        LET c == mdl.masses[eid]
                        IN  IF eid \notin group.mass_elem_ids THEN c
                            ELSE IF c.type = "CONM2"
                            THEN [c EXCEPT !.val = <<c.val[1] * s, present(c.val[2])>>]
                            ELSE IF c.type = "CONM1"
                            THEN [c EXCEPT !.val[1] = present(c.val[1])]
                            ELSE IF c.type \in {"CMASS1", "CMASS2"} /\ c.val[1] # None
                            THEN [c EXCEPT !.val[1] = c.val[1] * s]
                            ELSE c]]

\* the body of the loop of _apply_scale_factors_inplace for one group whose
\* scale is s: rho of its materials, nsm of its properties and CONRODs, mass
\* and inertia of its mass elements
ScaleGroup(mdl, group, s) ==
    LET times(x) == IF x # None /\ x # 0 THEN x * s ELSE x
        first(c) == [c EXCEPT !.val[1] = times(c.val[1])]
        present(x) == IF x # None THEN x * s ELSE x
    IN  [materials |-> [mid \in DOMAIN mdl.materials |->
                           IF mid \in group.material_ids THEN first(mdl.materials[mid])
                           ELSE mdl.materials[mid]],
         properties |-> [pid \in DOMAIN mdl.properties |->
                            IF pid \in group.property_ids THEN first(mdl.properties[pid])
                            ELSE mdl.properties[pid]],
         elements |-> [eid \in DOMAIN mdl.elements |->
                          IF eid \in group.conrod_ids THEN first(mdl.elements[eid])
                          ELSE mdl.elements[eid]],
         masses |-> [eid \in DOMAIN mdl.masses |->
                        LET c == mdl.masses[eid]
                        IN  IF eid \notin group.mass_elem_ids THEN c
                            ELSE IF c.type = "CONM2"
                            THEN [c EXCEPT !.val = <<c.val[1] * s, present(c.val[2])>>]
                            ELSE IF c.type = "CONM1"
                            THEN [c EXCEPT !.val[1] = present(c.val[1])]
                            ELSE IF c.type \in {"CMASS1", "CMASS2"} /\ c.val[1] # None
                            THEN [c EXCEPT !.val[1] = c.val[1] * s]
                            ELSE c]]

\* _apply_scale_factors_inplace over the first n groups; a group whose scale
\* is 1 is skipped
RECURSIVE _apply_scale_factors_inplace(_, _, _, _)
_apply_scale_factors_inplace(mdl, groups, scale_by_ifile, n) ==
    IF n = 0 THEN mdl
    ELSE LET before == _apply_scale_factors_inplace(mdl, groups, scale_by_ifile, n - 1)
             s == scale_by_ifile[groups[n].ifile]
         IN  IF s = 1 THEN before ELSE ScaleGroup(before, groups[n], s)

\* _restore_originals without the mass elements
_restore_originalsButMasses(mdl, originals) ==
    LET captured == _RHO_MAT_TYPES \cup _NSM_PROP_TYPES \cup {"CONROD"}
    IN  [d \in DOMAIN mdl |->
            [id \in DOMAIN mdl[d] |->
                IF mdl[d][id].type \in captured
                THEN [mdl[d][id] EXCEPT !.val = originals[d][id].val]
                ELSE mdl[d][id]]]

\* _capture_originals and _restore_originals: the scalars that were captured
\* from the model originals are put back into mdl; the inertia of a CONM2 and
\* the mass matrix of a CONM1 only when the captured value is not None
_restore_originals(mdl, originals) ==
    LET captured == _RHO_MAT_TYPES \cup _NSM_PROP_TYPES \cup {"CONROD", "CMASS1", "CMASS2"}
    IN  [d \in DOMAIN mdl |->
            [id \in DOMAIN mdl[d] |->
                LET c == mdl[d][id]
                    val == originals[d][id].val
                IN  IF c.type \in captured THEN [c EXCEPT !.val = val]
                    ELSE IF c.type = "CONM2"
                    THEN [c EXCEPT !.val = <<val[1], IF val[2] # None THEN val[2] ELSE @[2]>>]
                    ELSE IF c.type = "CONM1" /\ val[1] # None THEN [c EXCEPT !.val = val]
                    ELSE c]]

\* _build_scaled_lookup: {(card type, id): card} of the cards of a group; a
\* later loop overwrites the entry of an earlier one
_build_scaled_lookup(mdl, group) ==
    LET part(d, ids) ==
            [key \in {<<mdl[d][id].type, id>> : id \in ids \cap DOMAIN mdl[d]} |->
                mdl[d][key[2]]]
    IN  part("elements", group.conrod_ids) @@ part("masses", group.mass_elem_ids)
            @@ part("properties", group.property_ids)
            @@ part("materials", group.material_ids)

\* card.write_card(size=8): the one text the card is serialized to, with the
\* scalars the card has now
write_card(card) ==
    [TextLine("written", card.type, card.id, card.uid) EXCEPT !.text = card.val]

\* one iteration of the loop of _rewrite_file_with_scaled_cards on a line
RewriteLine(s, line, scaled_card_lookup) ==
    LET first_char_isalpha ==
            \/ line.kind \in {"card", "written", "exec", "cend", "case", "begin_bulk"}
            \/ line.kind = "cont" /\ line.name \notin {"+", "*", "1.0", ""}
        copied == [s EXCEPT !.out = Append(@, line)]
        key == <<line.name, line.id>>
    IN  IF ~s.in_bulk
        THEN [copied EXCEPT !.in_bulk = (line.kind = "begin_bulk")]
        ELSE IF line.kind \in {"enddata", "include"}
        THEN [copied EXCEPT !.replacing = FALSE]
        ELSE IF line.kind \in {"blank", "comment"}
        THEN IF s.replacing THEN s ELSE copied
        ELSE IF first_char_isalpha
        THEN IF line.name # "" /\ line.id # None /\ key \in DOMAIN scaled_card_lookup
             THEN [s EXCEPT !.out = Append(@, write_card(scaled_card_lookup[key])),
                            !.replacing = TRUE]
             ELSE [copied EXCEPT !.replacing = FALSE]
        ELSE IF s.replacing THEN s ELSE copied

\* _rewrite_file_with_scaled_cards: the loop over the first n lines
RECURSIVE _rewrite_file_with_scaled_cards(_, _, _, _)
_rewrite_file_with_scaled_cards(lines, n, scaled_card_lookup, is_main_file) ==
    IF n = 0 THEN [in_bulk |-> ~is_main_file, replacing |-> FALSE, out |-> <<>>]
    ELSE LET before == _rewrite_file_with_scaled_cards(lines, n - 1, scaled_card_lookup,
                                                      is_main_file)
         IN  RewriteLine(before, lines[n], scaled_card_lookup)

\* _write_scaled in suffix or directory mode (every output path is a new
\* path; out is keyed by the input path): the scalars are scaled in the
\* model, every file whose scale is not 1 is rewritten, and the captured
\* scalars are restored.  The open() of a file that is not there raises: the
\* files of the groups before it are written, the scalars are restored in the
\* finally clause and pc is "failed".  The tool is the record [pc, model, loaded, groups,
\* overrides, scaled, out]: loaded is the model as it was read, overrides[i]
\* is _scale_overrides.get(i, 1.0), scaled is the model the files were
\* written from.
_write_scaled(sc, dsk) ==
    LET scales == [i \in DOMAIN sc.groups |-> sc.overrides[i]]
        scaled == _apply_scale_factors_inplace(sc.model, sc.groups, scales, Len(sc.groups))
        todo == {i \in DOMAIN sc.groups : scales[sc.groups[i].ifile] # 1}
        raises == {i \in todo : ~dsk[sc.groups[i].filepath].exists}
        done == {i \in todo : \A k \in raises : i < k}
    IN  [sc EXCEPT
            !.pc = IF raises = {} THEN "written" ELSE "failed",
            !.scaled = scaled,
            !.out = [fp \in {sc.groups[i].filepath : i \in done} |->
                        LET i == CHOOSE j \in done : sc.groups[j].filepath = fp
                        IN  _rewrite_file_with_scaled_cards(
                                dsk[fp].lines, Len(dsk[fp].lines),
                                _build_scaled_lookup(scaled, sc.groups[i]), i = 1).out],
            !.model = _restore_originals(scaled, sc.model)]

-----------------------------------------------------------------------------
(* Bounds and inputs *)

MaxId == 2        \* ids a file owns in the range study
MaxStart == 3     \* largest range start in the range study
MaxWidth == 2     \* largest range capacity in the range study
Base == 100       \* the id blocks of the deck study start at Base + 1, 2 * Base + 1
BlockWidth == 10  \* ids per family block in the deck study
MaxScale == 2     \* largest scale factor of the scale study
MaxSetId == 3     \* largest id in the list of a set of the set study
MaxPaths == 2     \* BDF files the user may browse to in the window study
MaxNames == 1     \* texts the user may type into the Name column
MaxThreads == 2   \* background threads the window study lets run at a time
MaxParts == 3     \* plates of the partition study, and the part ids a merge may name

\* the deck of the deck study: two plates' worth of renumbering targets spread
\* over main.bdf and a.inc, a second SPC1 of set 1 in spc_home, and (spoints)
\* the line "SPOINT 4 <Base + 3>" whose second id the parser does not see
Deck(g0, spc_home, force_cid, spoints) ==
    <<Line(Card("GRID", 1, [nid |-> <<1>>, cp |-> <<0>>, cd |-> <<0>>]), "main.bdf", TRUE),
      Line(Card("GRID", 2, [nid |-> <<2>>, cp |-> <<1>>, cd |-> <<0>>]), "main.bdf", TRUE),
      Line(Card("GRID", 3, [nid |-> <<3>>, cp |-> <<0>>, cd |-> <<1>>]), "a.inc", TRUE),
      Line(Card("CORD2R", 4, [cid |-> <<1>>, rid |-> <<0>>]), "main.bdf", TRUE),
      Line(Card("CORD1R", 5, [cid |-> <<2>>, g1 |-> <<1>>, g2 |-> <<2>>, g3 |-> <<3>>]),
           "a.inc", TRUE),
      Line(Card("CBUSH", 6, [eid |-> <<1>>, pid |-> <<1>>, nodes |-> <<1, 3>>,
                             g0 |-> <<g0>>, cid |-> <<1>>]), "a.inc", TRUE),
      Line(Card("PBUSH", 7, [pid |-> <<1>>]), "a.inc", TRUE),
      Line(Card("RBE2", 8, [eid |-> <<2>>, gn |-> <<1>>, Gmi |-> <<2>>]), "a.inc", TRUE),
      Line(Card("CONM2", 9, [eid |-> <<3>>, nid |-> <<3>>, cid |-> <<2>>]), "a.inc", TRUE),
      Line(Card("SPC1", 10, [conid |-> <<1>>, nodes |-> <<1>>]), "main.bdf", TRUE),
      Line(Card("SPC1", 11, [conid |-> <<1>>, nodes |-> <<3>>]), spc_home, TRUE),
      Line(Card("FORCE", 12, [sid |-> <<2>>, node |-> <<2>>, cid |-> <<force_cid>>]),
           "main.bdf", TRUE)>>
    \o (IF spoints
        THEN <<Line(Card("SPOINT", 13, [nid |-> <<4>>]), "main.bdf", TRUE),
               Line(Card("SPOINT", 14, [nid |-> <<Base + 3>>]), "main.bdf", FALSE)>>
        ELSE <<>>)

\* the (start, end) a user may give a file in the deck study
FileRangeMenu(f) ==
    CASE f = "main.bdf" -> {<<0, 4 * BlockWidth - 1>>,
                            <<Base + 1, Base + 4 * BlockWidth>>,
                            <<4 * Base + 1, 4 * Base + 4 * BlockWidth>>}
      [] f = "a.inc" -> {<<Base + 1, Base + 4 * BlockWidth>>,
                         <<2 * Base + 1, 2 * Base + 4 * BlockWidth>>,
                         <<2 * Base + 1, 2 * Base + 3>>}
      [] f = "b.inc" -> {<<0, BlockWidth - 1>>,
                         <<3 * Base + 1, 3 * Base + BlockWidth>>}

\* the deck of the range study: one card per catalogued id of the family
\* under study, GRIDs for nid and GRAVs for load_id
RangeDeckCard(fam, id) ==
    IF fam = "nid" THEN Card("GRID", id, [nid |-> <<id>>, cp |-> <<0>>, cd |-> <<0>>])
    ELSE Card("GRAV", id, [sid |-> <<id>>, cid |-> <<0>>])

\* the ids file number k owns when it owns n of them
OwnedIds(k, n) == {(k - 1) * MaxId + i : i \in 1 .. n}

RangeDeck(fam, n) ==
    LET ids == SortedSeq(UNION {OwnedIds(k, n[k]) : k \in DOMAIN all_files})
    IN  [i \in DOMAIN ids |->
            Line(RangeDeckCard(fam, ids[i]),
                 all_files[CHOOSE k \in DOMAIN all_files : ids[i] \in OwnedIds(k, n[k])],
                 TRUE)]

\* the ranges a caller may hand to validate_ranges for one bucket
RangeMenu ==
    {NoRange} \cup {<<s, s + w - 1>> : s \in 0 .. MaxStart, w \in 0 .. MaxWidth}

\* ... and for a bucket of an include file, which owns one id at most
IncludeRangeMenu ==
    {NoRange} \cup {<<s, s + w - 1>> : s \in 0 .. MaxStart, w \in 0 .. 1}

\* the text of the files of a deck: main.bdf with its executive and case
\* control sections and its INCLUDE lines (of a.inc and b.inc, or of a.inc
\* alone when b.inc is included from a.inc), then in each file the lines of
\* the cards whose text is in the file and the lines extra[f]
NoLines == [f \in Files |-> <<>>]

DeckText(deck, nested, case_lines, extra) ==
    LET mine(f) == SelectSeq(deck, LAMBDA l : l.home = f /\ l.lexed)
        cards(f) == [i \in DOMAIN mine(f) |->
                        TextLine("card", mine(f)[i].card.type,
                                 PrimaryId(mine(f)[i].card), mine(f)[i].card.uid)]
        include(p) == TextLine("include", p, None, 0)
    IN  [f \in Files |->
            [exists |-> TRUE,
             lines |->
                CASE f = "main.bdf" ->
                        <<TextLine("exec", "SOL", None, 0), TextLine("cend", "", None, 0)>>
                        \o case_lines
                        \o <<TextLine("begin_bulk", "", None, 0), include("a.inc")>>
                        \o (IF nested THEN <<>> ELSE <<include("b.inc")>>)
                        \o cards(f) \o extra[f]
                        \o <<TextLine("enddata", "", None, 0)>>
                  [] f = "a.inc" ->
                        (IF nested THEN <<include("b.inc")>> ELSE <<>>)
                        \o cards(f) \o extra[f]
                  [] OTHER -> cards(f) \o extra[f]]]

\* the mass scale tool before a deck is opened
NoScale ==
    [pc |-> "idle", model |-> ReadMassModel({}), loaded |-> ReadMassModel({}),
     groups |-> <<>>, overrides |-> <<>>, scaled |-> ReadMassModel({}), out |-> EmptyMap]

\* the deck of the scale study: its cards and its files.  main.bdf holds the
\* executive and case-control sections, the INCLUDE lines of a.inc and b.inc,
\* a MAT1 (density rho1), a PSHELL with nsm and a CQUAD4; a.inc holds a CONM2
\* with a continuation line that starts with conm2_lead, a MAT1, a PBUSH, a
\* CONROD with nsm and a PARAM card; b.inc holds a MAT2, a PBEAM with nsm and
\* a continuation line that starts with pbeam_lead, and a CMASS2.  A comment
\* and a blank line stand after the CONM2 and a comment after the PBEAM when
\* trailing, and before them otherwise.  inertia is the I of the CONM2.
ScaleDeck(rho1, conm2_lead, pbeam_lead, trailing, inertia) ==
    LET card(type, id, uid, val) == [type |-> type, id |-> id, uid |-> uid, val |-> val]
        in_main == <<card("MAT1", 1, 1, <<rho1>>), card("PSHELL", 1, 2, <<3>>),
                     card("CQUAD4", 1, 3, <<None>>)>>
        conm2 == card("CONM2", 11, 4, <<5, inertia>>)
        in_a == <<card("MAT1", 2, 5, <<4>>), card("PBUSH", 2, 6, <<None>>),
                  card("CONROD", 12, 7, <<1>>)>>
        pbeam == card("PBEAM", 3, 10, <<2>>)
        mat2 == card("MAT2", 3, 9, <<6>>)
        cmass2 == card("CMASS2", 13, 11, <<9>>)
        line(c) == TextLine("card", c.type, c.id, c.uid)
        lines(cs) == [i \in DOMAIN cs |-> line(cs[i])]
        notes(uid) == <<TextLine("comment", "", None, uid), TextLine("blank", "", None, uid + 1)>>
        note(uid) == <<TextLine("comment", "", None, uid)>>
    IN  [cards |-> Range(in_main) \cup Range(in_a) \cup {conm2, pbeam, mat2, cmass2},
         disk |->
            [f \in Files |->
                [exists |-> TRUE,
                 lines |->
                    CASE f = "main.bdf" ->
                            <<TextLine("exec", "SOL", None, 0), TextLine("cend", "", None, 0),
                              TextLine("case", "SUBCASE", 1, 20),
                              TextLine("begin_bulk", "", None, 0),
                              TextLine("include", "a.inc", None, 0),
                              TextLine("include", "b.inc", None, 0)>>
                            \o note(12) \o lines(in_main)
                            \o <<TextLine("enddata", "", None, 0)>>
                      [] f = "a.inc" ->
                            (IF trailing THEN <<>> ELSE notes(42))
                            \o <<line(conm2), TextLine("cont", conm2_lead, None, 41)>>
                            \o (IF trailing THEN notes(42) ELSE <<>>)
                            \o lines(in_a) \o <<TextLine("card", "PARAM", None, 8)>>
                      [] OTHER ->
                            <<line(mat2)>>
                            \o (IF trailing THEN <<>> ELSE note(102))
                            \o <<line(pbeam), TextLine("cont", pbeam_lead, None, 101)>>
                            \o (IF trailing THEN note(102) ELSE <<>>)
                            \o <<line(cmass2)>>]]]

\* case-control lines that end in the number n.  name is the family of the
\* keyword of a line of the form KEYWORD = n or KEYWORD(opts) = n, and ""
\* for a line that is not of that form; id is n
CaseLineMenu(n) ==
    LET line(chars, family, uid) ==
            [TextLine("case", family, n, uid) EXCEPT !.text = Chars(chars) \o <<Number(n)>>]
    IN  {line(<<"L", "O", "A", "D", " ", "=", " ">>, "load_id", 1),
         line(<<"D", "L", "O", "A", "D", " ", "=", " ">>, "load_id", 2),
         line(<<"S", "P", "C", "=">>, "spc_id", 3),
         line(<<"M", "E", "T", "H", "O", "D", " ", "=", " ">>, "method_id", 4),
         line(<<"C", "M", "E", "T", "H", "O", "D", " ", "=", " ">>, "method_id", 5),
         line(<<"M", "E", "T", "H", "O", "D", "(", "F", "L", "U", "I", "D", ")", " ",
                "=", " ">>, "method_id", 6),
         line(<<"T", "E", "M", "P", "E", "R", "A", "T", "U", "R", "E", "(", "L", "O",
                "A", "D", ")", " ", "=", " ">>, "load_id", 7),
         line(<<"T", "E", "M", "P", "E", "R", "A", "T", "U", "R", "E", " ", "(", " ",
                "I", "N", "I", "T", "I", "A", "L", " ", ")", "=">>, "load_id", 8),
         line(<<"S", "U", "P", "O", "R", "T", "1", " ", "=", " ">>, "set_id", 9),
         line(<<"F", "R", "E", "Q", " ", "=", " ">>, "table_id", 10),
         line(<<"S", "U", "B", "C", "A", "S", "E", " ">>, "", 11),
         line(<<"S", "E", "T", " ", "9", " ", "=", " ">>, "", 12),
         line(<<"S", "P", "C", "F", "O", "R", "C", "E", "S", "(", "P", "L", "O", "T",
                ")", " ", "=", " ">>, "", 13)}

\* maps a caller may hand to CardRenumberer directly
PartialMaps(keys, vals) == UNION {[S -> vals] : S \in SUBSET keys}

-----------------------------------------------------------------------------
(* Initial states *)

NoResult == [parts |-> <<>>, joints |-> <<>>, warnings |-> {}]

NoModel == [nodes |-> {}, elements |-> <<>>, rigid_elements |-> <<>>,
            masses |-> <<>>, properties |-> {}, prop_names |-> <<>>]

NoMerge == [merge_set |-> {}, absorbed |-> <<>>, merged |-> FALSE]

PartitionIdle ==
    /\ gui = GuiStart
    /\ ppc = "idle"
    /\ pmodel = NoModel
    /\ result = NoResult
    /\ pfiles = {}
    /\ lastMerge = NoMerge

\* the tool with a deck parsed and ranges entered
Loaded(deck, dsk, rngs, inc, at, mps) ==
    /\ disk = dsk
    /\ parser = parse(ParserStart("main.bdf"), dsk)
    /\ out = EmptyMap
    /\ scale = NoScale
    /\ pc = at
    /\ file_ids = Catalog(deck)
    /\ ranges = rngs
    /\ include_set_ids = inc
    /\ errors = {}
    /\ maps = mps
    /\ model = read_bdf(deck, Len(deck))
    /\ model0 = read_bdf(deck, Len(deck))
    /\ home = Home(deck)
    /\ written = NotWritten
    /\ PartitionIdle

\* the deck study: ranges come from _auto_allocate
InitDeck ==
    \E g0 \in {None, 2}, spc_home \in Files, force_cid \in {0, 1},
       spoints \in BOOLEAN, inc \in BOOLEAN :
      \E file_ranges \in [Files -> UNION {FileRangeMenu(f) : f \in Files}] :
        /\ \A f \in Files : file_ranges[f] \in FileRangeMenu(f)
        /\ LET deck == Deck(g0, spc_home, force_cid, spoints)
           IN  Loaded(deck, DeckText(deck, FALSE, <<>>, NoLines),
                      _auto_allocate(Catalog(deck), file_ranges), inc,
                      "ready", NoMaps)

\* CardRenumberer used on its own, with maps of the caller's choice
InitDirect ==
    \E cid_map \in PartialMaps({0, 1, 2}, {0, 1, Base}),
       nid_map \in PartialMaps({0, 1}, {0, Base}), inc \in BOOLEAN :
        LET deck == Deck(None, "main.bdf", 0, FALSE)
        IN  Loaded(deck, DeckText(deck, FALSE, <<>>, NoLines),
                   [f \in Files |-> [etype \in Range(ENTITY_TYPES) |-> NoRange]],
                   inc, "built",
                   [etype \in Range(ENTITY_TYPES) |->
                       CASE etype = "cid" -> cid_map
                         [] etype = "nid" -> nid_map
                         [] OTHER -> EmptyMap])

\* the set study: CardRenumberer on a deck with a GRID, a SET1 and a SET3
\* whose id lists are set_ids, with node and element maps of the caller's
\* choice (old + Base in the node map, old + 2 * Base in the element map)
SetDeck(set_ids) ==
    <<Line(Card("GRID", 1, [nid |-> <<1>>, cp |-> <<0>>, cd |-> <<0>>]), "main.bdf", TRUE),
      Line(Card("SET1", 2, [sid |-> <<1>>, ids |-> set_ids]), "main.bdf", TRUE),
      Line(Card("SET3", 3, [sid |-> <<2>>, ids |-> set_ids]), "a.inc", TRUE)>>

\* the id lists of a set: no id twice
SetIdLists ==
    {<<>>} \cup {<<a>> : a \in 1 .. MaxSetId}
           \cup {s \in {<<a, b>> : a \in 1 .. MaxSetId, b \in 1 .. MaxSetId} : s[1] < s[2]}
           \cup {<<a, a + 1, a + 2>> : a \in 1 .. MaxSetId - 2}

InitSets ==
    \E set_ids \in SetIdLists, nid_keys \in SUBSET (1 .. MaxSetId),
       eid_keys \in SUBSET (1 .. MaxSetId) :
        LET deck == SetDeck(set_ids)
        IN  Loaded(deck, DeckText(deck, FALSE, <<>>, NoLines),
                   [f \in Files |-> [etype \in Range(ENTITY_TYPES) |-> NoRange]],
                   TRUE, "built",
                   [etype \in Range(ENTITY_TYPES) |->
                       CASE etype = "nid" -> [old \in nid_keys |-> old + Base]
                         [] etype = "eid" -> [old \in eid_keys |-> old + 2 * Base]
                         [] OTHER -> EmptyMap])

\* the case-control study: OutputWriter with maps of the caller's choice
\* (one map for every family but the node, element, property, material and
\* coordinate families), on a main file with two case-control lines
InitCaseControl ==
    \E n \in 1 .. MaxId, inc \in BOOLEAN,
       id_map \in {EmptyMap} \cup {[old \in 1 .. MaxId |-> old + d] : d \in {1, Base}} :
      \E first \in CaseLineMenu(n), second \in CaseLineMenu(1) :
        LET deck == Deck(None, "main.bdf", 0, FALSE)
        IN  Loaded(deck, DeckText(deck, FALSE, <<first, second>>, NoLines),
                   [f \in Files |-> [etype \in Range(ENTITY_TYPES) |-> NoRange]],
                   inc, "built",
                   [etype \in Range(ENTITY_TYPES) |->
                       IF etype \in {"nid", "eid", "pid", "mid", "cid"} THEN EmptyMap
                       ELSE id_map])

\* the range study: validate_ranges and build on arbitrary per-bucket ranges;
\* the main file owns 1 .. MaxId ids, each include file at most one
InitRanges ==
    \E fam \in {"nid", "load_id"}, n1 \in 1 .. MaxId, n2 \in 0 .. 1, n3 \in 0 .. 1 :
      \E inc \in (IF fam = "nid" THEN {TRUE} ELSE BOOLEAN),
         r1 \in RangeMenu,
         r2 \in (IF n2 = 0 THEN {NoRange} ELSE IncludeRangeMenu),
         r3 \in (IF n3 = 0 THEN {NoRange} ELSE IncludeRangeMenu) :
        LET n == <<n1, n2, n3>>
            rng == [f \in Files |->
                       <<r1, r2, r3>>[CHOOSE k \in DOMAIN all_files : all_files[k] = f]]
        IN  Loaded(RangeDeck(fam, n), DeckText(RangeDeck(fam, n), FALSE, <<>>, NoLines),
                   [f \in Files |-> [etype \in Range(ENTITY_TYPES) |->
                       IF etype = fam THEN rng[f] ELSE NoRange]],
                   inc, "ready", NoMaps)

\* the layout study: the deck of the deck study as text files, with b.inc
\* included from main.bdf or from a.inc, case-control lines that select the
\* SPC and LOAD sets of the deck, and (pt) a card the parser keeps as
\* passthrough text in file pt_home: BCPROPS, which is on _CARDS_TO_SKIP, or
\* DMIG, which is not in the registry, each with one continuation line
InitLayout ==
    \E spc_home \in {"main.bdf", "b.inc"}, force_cid \in {0, 1}, nested \in BOOLEAN,
       inc \in BOOLEAN, pt \in {"", "BCPROPS", "DMIG"}, pt_home \in {"main.bdf", "a.inc"} :
      \E file_ranges \in [Files -> UNION {FileRangeMenu(f) : f \in Files}] :
        /\ \A f \in Files : file_ranges[f] \in FileRangeMenu(f)
        /\ LET deck == Deck(None, spc_home, force_cid, FALSE)
               case_lines ==
                   <<[TextLine("case", "", None, 21) EXCEPT
                         !.text = Chars(<<"S", "P", "C", " ", "=", " ">>) \o <<Number(1)>>],
                     [TextLine("case", "", None, 22) EXCEPT
                         !.text = Chars(<<"L", "O", "A", "D", " ", "=", " ">>) \o <<Number(2)>>]>>
               extra == [f \in Files |->
                           IF pt # "" /\ f = pt_home
                           THEN <<TextLine("card", pt, 7, 31), TextLine("cont", "+", None, 32)>>
                           ELSE <<>>]
           IN  Loaded(deck, DeckText(deck, nested, case_lines, extra),
                      _auto_allocate(Catalog(deck), file_ranges), inc, "ready", NoMaps)

\* the files of the parse study: three files and the missing file c.inc.
\* includes[f] are the targets of the INCLUDE lines of f (graphs with
\* cycles, self-includes and files included twice among them); the file
\* card_home holds two cards after its INCLUDE lines: a first card (RBE2,
\* which is in the registry, or DMIG, which is not) with a continuation line
\* that starts with lead and one that starts with "+", a comment, and a
\* second card with a "+" continuation line.  main.bdf also holds a line of
\* the form of a GRID card between CEND and BEGIN BULK and one after ENDDATA
ParseDisk(includes, b_exists, card_home, first, lead, second) ==
    LET cards == <<TextLine("card", first, 1, 1), TextLine("cont", lead, None, 2),
                   TextLine("cont", "+", None, 3), TextLine("comment", "", None, 4),
                   TextLine("card", second, 2, 5), TextLine("cont", "+", None, 6)>>
        body(f) == [i \in DOMAIN includes[f] |-> TextLine("include", includes[f][i], None, 0)]
                   \o (IF f = card_home THEN cards ELSE <<>>)
    IN  [f \in Files \cup {"c.inc"} |->
            [exists |-> f \in Files /\ (f = "b.inc" => b_exists),
             lines |->
                IF f = "main.bdf"
                THEN <<TextLine("exec", "SOL", None, 0), TextLine("cend", "", None, 0),
                       TextLine("card", "GRID", 7, 7), TextLine("begin_bulk", "", None, 0)>>
                     \o body(f)
                     \o <<TextLine("enddata", "", None, 0), TextLine("card", "GRID", 8, 8)>>
                ELSE IF f \in Files THEN body(f) ELSE <<>>]]

\* the parse study: a parser that was not yet asked to parse
InitParse ==
    /\ pc = "idle"
    /\ file_ids = Catalog(<<>>)
    /\ ranges = [f \in Files |-> [etype \in Range(ENTITY_TYPES) |-> NoRange]]
    /\ include_set_ids = TRUE
    /\ errors = {}
    /\ maps = NoMaps
    /\ model = EmptyStore
    /\ model0 = EmptyStore
    /\ home = EmptyMap
    /\ written = NotWritten
    /\ out = EmptyMap
    /\ scale = NoScale
    /\ PartitionIdle
    /\ disk = EmptyMap
    /\ parser = [ParserStart("") EXCEPT !.stack = <<>>]

\* the mass scale tool after _open_bdf read a deck and computed its groups,
\* every scale factor being 1
ScaleLoaded(rhos, conm2_leads, pbeam_leads, trailings, inertias) ==
    /\ pc = "idle"
    /\ file_ids = Catalog(<<>>)
    /\ ranges = [f \in Files |-> [etype \in Range(ENTITY_TYPES) |-> NoRange]]
    /\ include_set_ids = TRUE
    /\ errors = {}
    /\ maps = NoMaps
    /\ model = EmptyStore
    /\ model0 = EmptyStore
    /\ home = EmptyMap
    /\ written = NotWritten
    /\ out = EmptyMap
    /\ PartitionIdle
    /\ \E rho1 \in rhos, conm2_lead \in conm2_leads, pbeam_lead \in pbeam_leads,
          trailing \in trailings, inertia \in inertias :
            LET deck == ScaleDeck(rho1, conm2_lead, pbeam_lead, trailing, inertia)
                prs == parse(ParserStart("main.bdf"), deck.disk)
                mdl == ReadMassModel(deck.cards)
            IN  /\ disk = deck.disk
                /\ parser = prs
                /\ scale = [pc |-> "loaded", model |-> mdl, loaded |-> mdl,
                            groups |-> _compute_groups(mdl, prs),
                            overrides |-> [i \in DOMAIN prs.all_files |-> 1],
                            scaled |-> mdl, out |-> EmptyMap]

\* the scale study: every deck, the CONM2 with an inertia
InitScale == ScaleLoaded({0, 2}, {"+", "1.0"}, {"+", "YES"}, BOOLEAN, {7})

\* the restore study: one layout of the deck, the CONM2 with or without an
\* inertia
InitRestore == ScaleLoaded({2}, {"+"}, {"+"}, {TRUE}, {7, None})

\* the partition study: MaxParts plates of one CQUAD4 each (plate k on nodes
\* 2k-1, 2k; plate 2 may share node 2 with plate 1), three RBE2 spiders with
\* independent nodes 7, 8, 9, two CBUSHes between spider centres, one CONM2;
\* with bars, three CBARs: one from plate 1 to the centre of the first spider,
\* one from that centre to the last plate, one from the last plate to a node
\* of its own
PlateNodes(k, joined) ==
    IF k = 2 /\ joined THEN <<2, 4>> ELSE <<2 * k - 1, 2 * k>>

PartitionDeck(joined, depA, depB, depC, bush2, mass_nid, bars, names) ==
    [nodes |-> 1 .. 2 * MaxParts + 4,
     elements |->
        [k \in 1 .. MaxParts |->
            [eid |-> k, type |-> "CQUAD4", nodes |-> PlateNodes(k, joined), pid |-> 1]]
        \o (IF bars
            THEN <<[eid |-> 41, type |-> "CBAR", nodes |-> <<1, 2 * MaxParts + 1>>, pid |-> 2],
                   [eid |-> 42, type |-> "CBAR",
                    nodes |-> <<2 * MaxParts + 1, 2 * MaxParts - 1>>, pid |-> 2],
                   [eid |-> 43, type |-> "CBAR",
                    nodes |-> <<2 * MaxParts, 2 * MaxParts + 4>>, pid |-> 2]>>
            ELSE <<>>)
        \o <<[eid |-> 21, type |-> "CBUSH",
              nodes |-> <<2 * MaxParts + 1, 2 * MaxParts + 2>>, pid |-> 5],
             [eid |-> 22, type |-> "CBUSH", nodes |-> bush2, pid |-> 5]>>,
     rigid_elements |->
        <<[eid |-> 11, type |-> "RBE2", gn |-> 2 * MaxParts + 1, Gmi |-> depA],
          [eid |-> 12, type |-> "RBE2", gn |-> 2 * MaxParts + 2, Gmi |-> depB],
          [eid |-> 13, type |-> "RBE2", gn |-> 2 * MaxParts + 3, Gmi |-> depC]>>,
     masses |-> <<[eid |-> 31, type |-> "CONM2", nid |-> mass_nid]>>,
     properties |-> {1, 2, 5},
     prop_names |-> [pid \in {1, 2, 5} |-> IF pid = 1 THEN names[1]
                                           ELSE IF pid = 5 THEN names[2] ELSE <<>>]]

\* the names the comments of the PSHELL and of the PBUSH may hold
NoNames == <<<<>>, <<>>>>

NameMenu ==
    {<<>>, <<"A">>, <<"A", "_", "1">>, <<"a", " ", "1">>} \X
    {<<>>, <<"A">>, <<"A", "_", "1">>, <<"a", " ", "1">>}

\* the partition tool with a deck read, bars being one of with_bars, the
\* dependent nodes of the first spider one of deps_a and the names in the
\* property comments one of prop_names
PartitionLoaded(with_bars, deps_a, prop_names) ==
    /\ pc = "idle"
    /\ file_ids = Catalog(<<>>)
    /\ ranges = [f \in Files |-> [etype \in Range(ENTITY_TYPES) |-> NoRange]]
    /\ include_set_ids = TRUE
    /\ errors = {}
    /\ maps = NoMaps
    /\ model = EmptyStore
    /\ model0 = EmptyStore
    /\ home = EmptyMap
    /\ written = NotWritten
    /\ disk = EmptyMap
    /\ parser = ParserStart("")
    /\ out = EmptyMap
    /\ scale = NoScale
    /\ gui = GuiStart
    /\ ppc = "loaded"
    /\ \E joined \in BOOLEAN,
          depA \in deps_a,
          depB \in {<<3>>, <<1>>, <<2 * MaxParts + 4>>},
          depC \in {<<5>>, <<3>>},
          bush2 \in {<<2 * MaxParts + 2, 2 * MaxParts + 3>>,
                     <<2 * MaxParts + 1, 2 * MaxParts + 3>>,
                     <<2 * MaxParts + 3, 0>>},
          mass_nid \in {1, 2 * MaxParts + 1}, bars \in with_bars, names \in prop_names :
            pmodel = PartitionDeck(joined, depA, depB, depC, bush2, mass_nid, bars, names)
    /\ result = NoResult
    /\ pfiles = {}
    /\ lastMerge = NoMerge

\* the partition study: decks without bars
InitPartition == PartitionLoaded({FALSE}, {<<1>>, <<1, 3>>}, {NoNames})

\* the structure study: decks with and without bars, and a first spider that
\* may have two of its three dependent nodes on plate 1 and one on plate 2
InitStructure == PartitionLoaded(BOOLEAN, {<<1>>, <<1, 3>>, <<1, 2, 3>>}, {NoNames})

\* the window study: the PartitionTool window as it opens
InitGui ==
    /\ pc = "idle"
    /\ file_ids = Catalog(<<>>)
    /\ ranges = [f \in Files |-> [etype \in Range(ENTITY_TYPES) |-> NoRange]]
    /\ include_set_ids = TRUE
    /\ errors = {}
    /\ maps = NoMaps
    /\ model = EmptyStore
    /\ model0 = EmptyStore
    /\ home = EmptyMap
    /\ written = NotWritten
    /\ disk = EmptyMap
    /\ parser = ParserStart("")
    /\ out = EmptyMap
    /\ scale = NoScale
    /\ PartitionIdle

\* the naming study: decks whose property comments may hold names
InitNames == PartitionLoaded({FALSE}, {<<1>>}, NameMenu)

-----------------------------------------------------------------------------
(* Actions *)

\* RenumberIncludesTool._apply, lines 1659-1666: validate, stop on errors
Validate ==
    /\ pc = "ready"
    /\ errors' = validate_ranges(file_ids, ranges, include_set_ids)
    /\ pc' = IF errors' # {} THEN "rejected" ELSE "validated"
    /\ UNCHANGED <<file_ids, ranges, include_set_ids, maps, model, model0, home,
                   written, pvars, disk, parser, out, scale>>

\* _apply, lines 1672-1675: build the maps
Build ==
    /\ pc = "validated"
    /\ maps' = build(file_ids, ranges)
    /\ pc' = "built"
    /\ UNCHANGED <<file_ids, ranges, include_set_ids, errors, model, model0, home,
                   written, pvars, disk, parser, out, scale>>

\* _apply, lines 1685-1688: renumber the cards of the store
Renumber ==
    /\ pc = "built"
    /\ model' = apply(model, maps, include_set_ids)
    /\ pc' = "applied"
    /\ UNCHANGED <<file_ids, ranges, include_set_ids, errors, maps, model0, home,
                   written, pvars, disk, parser, out, scale>>

\* _apply, lines 1699-1704: write the output files
Write ==
    /\ pc = "applied"
    /\ written' = write(model, file_ids, maps)
    /\ out' = [f \in Range(parser.all_files) |->
                  IF f = parser.all_files[1]
                  THEN _write_main_file(disk, parser, maps, include_set_ids,
                                        written'[f], f)
                  ELSE _write_include_file(written'[f], f)]
    /\ pc' = "written"
    /\ UNCHANGED <<file_ids, ranges, include_set_ids, errors, maps, model, model0,
                   home, pvars, disk, parser, scale>>

\* PartitionTool._do_partition
Partition ==
    /\ ppc = "loaded"
    /\ result' = partition_model(pmodel)
    /\ ppc' = "partitioned"
    /\ UNCHANGED <<rvars, scale, gui, pmodel, pfiles, lastMerge>>

\* PartitionTool._merge_selected: merge_parts on the part ids read from the
\* selected rows, which are among ids
MergeOf(ids) ==
    /\ ppc \in {"partitioned", "written"}
    /\ \E merge_set \in SUBSET ids :
        /\ Cardinality(merge_set) >= 2
        /\ result' = merge_parts(result, merge_set)
        /\ lastMerge' =
              [merge_set |-> merge_set,
               absorbed |-> SelectSeq(result.joints, LAMBDA j : IsAbsorbed(j, merge_set)),
               merged |-> Cardinality({i \in DOMAIN result.parts :
                                          result.parts[i].part_id \in merge_set}) >= 2]
    /\ ppc' = "partitioned"
    /\ UNCHANGED <<rvars, scale, gui, pmodel, pfiles>>

\* a merge of plates
Merge == MergeOf(1 .. MaxParts)

\* a merge of any parts, the part of a grounded CBUSH among them
MergeAny == MergeOf(1 .. MaxParts + 1)

\* PartitionTool._write_output: write_partition into the output directory,
\* where files of an earlier write stay unless they are written again
WritePartition ==
    /\ ppc = "partitioned"
    /\ pfiles' = {f \in pfiles : \A g \in write_partition(pmodel, result) : g.name # f.name}
                 \cup write_partition(pmodel, result)
    /\ ppc' = "written"
    /\ UNCHANGED <<rvars, scale, gui, pmodel, result, lastMerge>>

\* the callbacks of the window run on the UI thread, one at a time; a button
\* that is disabled calls nothing
Browse ==
    /\ \E path \in 1 .. MaxPaths : gui' = _browse_bdf(gui, path)
    /\ UNCHANGED <<rvars, scale, ppc, pmodel, result, pfiles, lastMerge>>

ClickPartition ==
    /\ gui.partition_btn
    /\ Len(gui.threads) < MaxThreads
    /\ gui' = _do_partition(gui)
    /\ UNCHANGED <<rvars, scale, ppc, pmodel, result, pfiles, lastMerge>>

ClickWrite ==
    /\ gui.write_btn
    /\ Len(gui.threads) < MaxThreads
    /\ gui' = _write_output(gui)
    /\ UNCHANGED <<rvars, scale, ppc, pmodel, result, pfiles, lastMerge>>

ClickMerge ==
    /\ gui.merge_btn
    /\ gui' = _merge_selected(gui)
    /\ UNCHANGED <<rvars, scale, ppc, pmodel, result, pfiles, lastMerge>>

NameEdited ==
    /\ \E names \in 1 .. MaxNames : gui' = _on_name_edited(gui, names)
    /\ UNCHANGED <<rvars, scale, ppc, pmodel, result, pfiles, lastMerge>>

\* a step of a background thread
Worker ==
    /\ \E i \in DOMAIN gui.threads :
          /\ gui.threads[i].step # "finished"
          /\ gui' = _worker(gui, i)
    /\ UNCHANGED <<rvars, scale, ppc, pmodel, result, pfiles, lastMerge>>

\* the after(50, _poll) callback of a thread that has finished
Poll ==
    /\ \E i \in DOMAIN gui.threads :
          /\ gui.threads[i].step = "finished"
          /\ gui' = _poll(gui, i)
    /\ UNCHANGED <<rvars, scale, ppc, pmodel, result, pfiles, lastMerge>>

NextGui == Browse \/ ClickPartition \/ ClickWrite \/ ClickMerge \/ NameEdited \/ Worker \/ Poll

NextRenumber == Validate \/ Build \/ Renumber \/ Write

\* IncludeFileParser.parse is called on the main file of some files on disk:
\* it resets the fields of the parser
ParseCall ==
    /\ parser.stack = <<>>
    /\ parser.calls = <<>>
    /\ \E inc_main \in {<<"a.inc">>, <<"a.inc", "b.inc">>, <<"a.inc", "a.inc">>,
                         <<"b.inc", "a.inc">>},
          inc_a \in {<<>>, <<"b.inc">>, <<"main.bdf">>, <<"a.inc">>, <<"c.inc">>},
          inc_b \in {<<>>, <<"a.inc">>, <<"main.bdf">>},
          b_exists \in BOOLEAN, card_home \in {"main.bdf", "a.inc"},
          first \in {"RBE2", "DMIG"}, lead \in {"+", "*", "1.0", "YES", ""},
          second \in {"RBE2", "DMIG"} :
            disk' = ParseDisk([f \in Files |->
                                  CASE f = "main.bdf" -> inc_main
                                    [] f = "a.inc" -> inc_a
                                    [] OTHER -> inc_b],
                              b_exists, card_home, first, lead, second)
    /\ parser' = ParserStart("main.bdf")
    /\ UNCHANGED <<pc, file_ids, ranges, include_set_ids, errors, maps, model, model0,
                   home, written, out, pvars, scale>>

\* parse calls _parse_file on the main file, or a call of _parse_file
\* reaches its next INCLUDE line and calls _parse_file on it
ParseInclude ==
    /\ parser.stack # <<>>
    /\ Head(parser.stack).todo # <<>>
    /\ parser' = ParseStep(parser, disk)
    /\ UNCHANGED <<pc, file_ids, ranges, include_set_ids, errors, maps, model, model0,
                   home, written, disk, out, pvars, scale>>

\* ... or a call of _parse_file (or parse itself) reaches its end and returns
ParseReturn ==
    /\ parser.stack # <<>>
    /\ Head(parser.stack).todo = <<>>
    /\ parser' = ParseStep(parser, disk)
    /\ UNCHANGED <<pc, file_ids, ranges, include_set_ids, errors, maps, model, model0,
                   home, written, disk, out, pvars, scale>>

\* MassScaleTool._on_sheet_modified: the user edits the scale factor of a row
SheetModified ==
    /\ scale.pc # "idle"
    /\ \E gi \in DOMAIN scale.groups, val \in 0..MaxScale :
          /\ val # scale.overrides[gi]
          /\ scale' = [scale EXCEPT !.overrides[gi] = val, !.pc = "loaded"]
    /\ UNCHANGED <<rvars, pvars>>

\* MassScaleTool._reset_all
ResetAll ==
    /\ scale.pc # "idle"
    /\ scale' = [scale EXCEPT !.overrides = [i \in DOMAIN scale.overrides |-> 1],
                              !.pc = "loaded"]
    /\ UNCHANGED <<rvars, pvars>>

\* an include file is removed from the disk while the tool is open
RemoveFile ==
    /\ scale.pc # "idle"
    /\ \E f \in Range(parser.all_files) \ {parser.all_files[1]} :
          /\ disk[f].exists
          /\ disk' = [disk EXCEPT ![f].exists = FALSE]
    /\ UNCHANGED <<pc, file_ids, ranges, include_set_ids, errors, maps, model, model0,
                   home, written, parser, out, pvars, scale>>

\* MassScaleTool._write_scaled
WriteScaled ==
    /\ scale.pc # "idle"
    /\ scale' = _write_scaled(scale, disk)
    /\ UNCHANGED <<rvars, pvars>>

NextParse == ParseCall \/ ParseInclude \/ ParseReturn

NextScale == SheetModified \/ ResetAll \/ WriteScaled

NextRestore == SheetModified \/ RemoveFile \/ WriteScaled

NextWrite == Renumber \/ Write

NextPartition == Partition \/ Merge \/ WritePartition

NextStructure == Partition \/ WritePartition

NextMerge == Partition \/ MergeAny

\* the deck study
Spec == InitDeck /\ [][NextRenumber]_vars

\* the deck study together with CardRenumberer used on its own
SpecApply == (InitDeck \/ InitDirect) /\ [][NextRenumber]_vars

\* the layout study
SpecLayout == InitLayout /\ [][NextRenumber]_vars

\* the case-control study
SpecCaseControl == InitCaseControl /\ [][NextWrite]_vars

\* the parse study; once parse is called, a call that can take its next step
\* takes it (the parser runs in one thread and nothing preempts it for ever)
SpecParse == InitParse /\ [][NextParse]_vars /\ WF_vars(ParseInclude \/ ParseReturn)

\* the scale study
SpecScale == InitScale /\ [][NextScale]_vars

\* the range study
SpecRanges == InitRanges /\ [][NextRenumber]_vars

\* the partition study
SpecPartition == InitPartition /\ [][NextPartition]_vars

\* the restore study: writes that may fail part-way
SpecRestore == InitRestore /\ [][NextRestore]_vars

\* the window study
SpecGui == InitGui /\ [][NextGui]_vars

\* the set study
SpecSets == InitSets /\ [][NextWrite]_vars

\* the merge study: partition_model and merges without write_partition
SpecMerge == InitPartition /\ [][NextMerge]_vars

\* the naming study
SpecNames == InitNames /\ [][NextStructure]_vars

\* the structure study: partition_model and write_partition without merges
SpecStructure == InitStructure /\ [][NextStructure]_vars

-----------------------------------------------------------------------------
(* Properties of the range validation (range study) *)

AllTypes == Range(ENTITY_TYPES)

\* the families validate_ranges is asked to check under the current toggle
CheckedTypes == {t \in AllTypes : include_set_ids \/ t \notin SET_ID_TYPES}

Owns(f, etype) == file_ids[f][etype] # {}

\* an owning bucket with no range, an end below its start, or too few ids
BadBucket(f, etype) ==
    /\ Owns(f, etype)
    /\ \/ ranges[f][etype] = NoRange
       \/ ranges[f][etype][2] < ranges[f][etype][1]
       \/ ranges[f][etype][2] - ranges[f][etype][1] + 1 < Cardinality(file_ids[f][etype])

\* _apply stopped before building maps, renumbering or writing
NothingDone ==
    /\ pc = "rejected"
    /\ maps = NoMaps
    /\ model = model0
    /\ written = NotWritten

\* C3 as stated: validate_ranges returns errors whenever an owning bucket of
\* any family has no range, an end below its start or a capacity below its
\* count, and _apply renumbers and writes nothing when there are errors.
C3_AsStated ==
    pc # "ready" =>
        /\ \A f \in Files, etype \in AllTypes : BadBucket(f, etype) => errors # {}
        /\ errors # {} => NothingDone

\* C3, amended: validate_ranges returns errors whenever an owning bucket of a
\* family it checks (every family when include_set_ids is on; every family
\* but spc_id, mpc_id, load_id when it is off) has no range, an end below its
\* start or a capacity below its count; and _apply builds no maps, renumbers
\* nothing and writes nothing when the list is non-empty.
C3_BadBucketRejected ==
    pc # "ready" =>
        /\ \A f \in Files, etype \in CheckedTypes : BadBucket(f, etype) => errors # {}
        /\ errors # {} => NothingDone

\* a bucket whose only fault is its capacity was validated, and _apply stopped
C3_Witness ==
    /\ NothingDone
    /\ \E f \in Files, etype \in CheckedTypes :
          /\ BadBucket(f, etype)
          /\ ranges[f][etype] # NoRange
          /\ ranges[f][etype][1] >= 1
          /\ ranges[f][etype][2] >= ranges[f][etype][1]
    /\ \A e \in errors : e.kind = "capacity"

\* two ranges share an id
Intersects(r1, r2) == \E x \in r1[1] .. r1[2] : x \in r2[1] .. r2[2]

\* two different files own ids of the family and their ranges intersect
OverlappingOwners(f, g, etype) ==
    /\ f # g
    /\ Owns(f, etype) /\ Owns(g, etype)
    /\ ranges[f][etype] # NoRange /\ ranges[g][etype] # NoRange
    /\ Intersects(ranges[f][etype], ranges[g][etype])

\* C4 as stated: validate_ranges returns an error whenever two files that own
\* ids of the same family have intersecting ranges, for any family.
C4_AsStated ==
    pc # "ready" =>
        \A f, g \in Files, etype \in AllTypes :
            OverlappingOwners(f, g, etype) => errors # {}

\* C4, amended: validate_ranges returns an error whenever two files that own
\* ids of the same family have intersecting ranges, for every family it
\* checks (spc_id, mpc_id, load_id only when include_set_ids is on), for any
\* number of files and whatever their order in the sorted list.
C4_OverlapRejected ==
    pc # "ready" =>
        \A f, g \in Files, etype \in CheckedTypes :
            OverlappingOwners(f, g, etype) => errors # {}

\* three owning files whose first and last ranges, in sorted order, intersect
C4_Witness ==
    /\ pc = "rejected"
    /\ \E etype \in CheckedTypes, f, g, h \in Files :
          LET t(x) == <<ranges[x][etype][1], ranges[x][etype][2], x>>
          IN  /\ OverlappingOwners(f, h, etype)
              /\ Owns(g, etype) /\ ranges[g][etype] # NoRange
              /\ ranges[g][etype][2] >= ranges[g][etype][1]
              /\ TupleLess(t(f), t(g)) /\ TupleLess(t(g), t(h))
              /\ \A e \in errors : e.kind = "overlap"

-----------------------------------------------------------------------------
(* Properties of the renumbering (deck study) *)

Renumbered == pc \in {"applied", "written"}

\* the card of a store with a given uid
HasUid(mdl, uid) == \E c \in CardsOf(mdl) : c.uid = uid
CardOf(mdl, uid) == CHOOSE c \in CardsOf(mdl) : c.uid = uid

\* map[old] when old is in the map, the old value otherwise
MapOrOld(id_map, old) == IF old \in DOMAIN id_map THEN id_map[old] ELSE old

\* the reference slots of a card type and the family each slot refers to
ReferenceSlots(t) ==
    CASE t = "GRID" -> {<<"cp", "cid">>, <<"cd", "cid">>}
      [] t = "CBUSH" -> {<<"nodes", "nid">>, <<"pid", "pid">>, <<"g0", "nid">>,
                         <<"cid", "cid">>}
      [] t = "CORD2R" -> {<<"rid", "cid">>}
      [] t = "CORD1R" -> {<<"g1", "nid">>, <<"g2", "nid">>, <<"g3", "nid">>}
      [] t = "RBE2" -> {<<"gn", "nid">>, <<"Gmi", "nid">>}
      [] t = "CONM2" -> {<<"nid", "nid">>, <<"cid", "cid">>}
      [] t = "SPC1" -> {<<"nodes", "nid">>}
      [] t = "FORCE" -> {<<"node", "nid">>, <<"cid", "cid">>}
      [] OTHER -> {}

\* C1 as stated: after CardRenumberer.apply every reference slot of every
\* card holds map[old] when old is in the map of the slot's family and the
\* old value otherwise.
C1_ReferencesRemapped ==
    Renumbered =>
        \A c0 \in CardsOf(model0) :
            HasUid(model, c0.uid) =>
                \A slot \in ReferenceSlots(c0.type) :
                    \A i \in DOMAIN c0.attrs[slot[1]] :
                        CardOf(model, c0.uid).attrs[slot[1]][i]
                            = MapOrOld(maps[slot[2]], c0.attrs[slot[1]][i])

\* the file of the catalog an old id is in
Owners(etype, old) == {f \in Files : old \in file_ids[f][etype]}

\* C2 as stated: for validated ranges, build gives every catalogued old id a
\* new id inside the range of the file owning it, no two old ids of a family
\* get the same new id, and apply leaves the number of cards of every store
\* unchanged.
C2_RemapInjectiveInRange ==
    pc \in {"built", "applied", "written"} =>
        /\ \A etype \in AllTypes, f \in Files : \A old \in file_ids[f][etype] :
              /\ old \in DOMAIN maps[etype]
              /\ ranges[f][etype] # NoRange
              /\ maps[etype][old] \in ranges[f][etype][1] .. ranges[f][etype][2]
        /\ \A etype \in AllTypes : \A a, b \in DOMAIN maps[etype] :
              maps[etype][a] = maps[etype][b] => a = b
        /\ Renumbered =>
              \A d \in STORE_DICTS :
                  CountCards(model[d], Len(model[d])) = CountCards(model0[d], Len(model0[d]))

\* every place a card with the uid is emitted at
Emissions(uid) ==
    UNION {{<<f, sec, i>> : i \in {j \in DOMAIN written[f][sec] :
                                      written[f][sec][j].uid = uid}} :
              f \in Files, sec \in {"ordered", "fallback"}}

\* C6 as stated: write emits every card in exactly one output file, the one
\* of the input file the parser assigned the card's primary id to, set-id
\* families included.
C6_EmittedOnceAtHome ==
    pc = "written" =>
        \A c \in CardsOf(model) :
            c.uid \in DOMAIN home =>
                /\ Cardinality(Emissions(c.uid)) = 1
                /\ \A e \in Emissions(c.uid) : e[1] = home[c.uid]

\* a card of the store whose primary id the parser catalogued in no file
Uncatalogued(c) ==
    /\ HasUid(model0, c.uid)
    /\ c # Coord0
    /\ LET c0 == CardOf(model0, c.uid)
       IN  Owners(CARD_ENTITY_MAP(c0.type), PrimaryId(c0)) = {}

\* C7 as stated: a card of the store whose primary id is in no file's catalog
\* is emitted in the fallback section of the main output file.
C7_UncataloguedInFallback ==
    pc = "written" =>
        \A c \in CardsOf(model) :
            Uncatalogued(c) =>
                \E i \in DOMAIN written["main.bdf"].fallback :
                    written["main.bdf"].fallback[i].uid = c.uid

-----------------------------------------------------------------------------
(* Coordinate id 0 (deck study and CardRenumberer on its own) *)

\* an owning bucket of the family was given a range that starts below 1
StartsBelowOne(f, etype) ==
    /\ ranges[f][etype] # NoRange
    /\ ranges[f][etype][1] < 1

\* the cards the store holds at coords[0]
CoordsAtZero(mdl) ==
    {mdl["coords"][i].cards : i \in {j \in DOMAIN mdl["coords"] : mdl["coords"][j].key = 0}}

\* every id or reference slot that held 0 or a blank before apply holds the
\* same value afterwards
ZeroSlotsKept ==
    \A c0 \in CardsOf(model0) :
        HasUid(model, c0.uid) =>
            \A a \in DOMAIN c0.attrs : \A i \in DOMAIN c0.attrs[a] :
                c0.attrs[a][i] \in {0, None} =>
                    CardOf(model, c0.uid).attrs[a][i] = c0.attrs[a][i]

\* C5 as stated: validate_ranges rejects every range whose start is below 1,
\* and for any maps apply keeps the coordinate system keyed 0 at key 0 and
\* leaves every slot whose value is 0 or blank unchanged.
C5_AsStated ==
    /\ pc # "ready" =>
          \A f \in Files, etype \in AllTypes : StartsBelowOne(f, etype) => errors # {}
    /\ Renumbered =>
          /\ CoordsAtZero(model) = CoordsAtZero(model0)
          /\ ZeroSlotsKept

\* the coordinate map sends no other id to 0
NoCidOntoZero ==
    \A k \in DOMAIN maps["cid"] : k # 0 => maps["cid"][k] # 0

\* C5, amended: validate_ranges rejects every range with a start below 1 of a
\* bucket that owns ids, in every family it checks (cid always; spc_id,
\* mpc_id, load_id only when include_set_ids is on); and for maps whose
\* coordinate map sends no other id to 0, apply keeps the coordinate system
\* keyed 0 at key 0 and leaves every slot whose value is 0 or blank unchanged.
C5_ZeroNeverRemapped ==
    /\ pc # "ready" =>
          \A f \in Files, etype \in CheckedTypes :
              (Owns(f, etype) /\ StartsBelowOne(f, etype)) => errors # {}
    /\ (Renumbered /\ NoCidOntoZero) =>
          /\ CoordsAtZero(model) = CoordsAtZero(model0)
          /\ ZeroSlotsKept

\* apply ran with maps that hold an entry for 0 in the coordinate and in the
\* node family, and renumbered other ids
C5_Witness ==
    /\ Renumbered
    /\ NoCidOntoZero
    /\ 0 \in DOMAIN maps["cid"] /\ maps["cid"][0] # 0
    /\ 0 \in DOMAIN maps["nid"] /\ maps["nid"][0] # 0
    /\ 1 \in DOMAIN maps["cid"] /\ maps["cid"][1] # 1
    /\ model # model0

-----------------------------------------------------------------------------
(* Properties of the partition (partition study) *)

\* the files the last write_partition produced
Emitted == {f \in pfiles : f \in write_partition(pmodel, result)}

\* every element id of the model: structural, rigid and mass
AllEids ==
    {pmodel.elements[i].eid : i \in DOMAIN pmodel.elements}
    \cup {pmodel.rigid_elements[i].eid : i \in DOMAIN pmodel.rigid_elements}
    \cup {pmodel.masses[i].eid : i \in DOMAIN pmodel.masses}

FilesWithElem(eid) == {f \in Emitted : eid \in f.elems}
FilesWithNode(nid) == {f \in Emitted : nid \in f.nodes}

\* C8 as stated: after partition_model, any merges and write_partition, every
\* element and every node of the model is written to exactly one emitted file.
C8_EveryEntityInOneFile ==
    ppc = "written" =>
        /\ \A eid \in AllEids : Cardinality(FilesWithElem(eid)) = 1
        /\ \A nid \in pmodel.nodes : Cardinality(FilesWithNode(nid)) = 1

\* the independent nodes of the RBE2s of the model
IndependentNodes ==
    {pmodel.rigid_elements[i].gn :
        i \in {j \in DOMAIN pmodel.rigid_elements : pmodel.rigid_elements[j].type = "RBE2"}}

\* the CBUSHes whose GA and GB are both the independent node of some RBE2
SpiderCbushes ==
    {pmodel.elements[i].eid :
        i \in {j \in DOMAIN pmodel.elements :
                  /\ pmodel.elements[j].type = "CBUSH"
                  /\ pmodel.elements[j].nodes[1] \in IndependentNodes
                  /\ pmodel.elements[j].nodes[2] \in IndependentNodes}}

\* C9 as stated: every CBUSH whose two endpoints are each the independent node
\* of some RBE2 is written to exactly one joint file and to no part file.
C9_SpiderCbushInOneJoint ==
    ppc = "written" =>
        \A eid \in SpiderCbushes :
            /\ Cardinality({f \in FilesWithElem(eid) : f.kind = "joint"}) = 1
            /\ {f \in FilesWithElem(eid) : f.kind = "part"} = {}

\* the CBUSH and both RBE2 element ids of every chain of a joint
ChainEids(joint) ==
    {joint.chains[i].cbush_eid : i \in DOMAIN joint.chains}
    \cup {joint.chains[i].rbe2_a_eid : i \in DOMAIN joint.chains}
    \cup {joint.chains[i].rbe2_b_eid : i \in DOMAIN joint.chains}

\* C10: after merge_parts(result, S) with at least two existing parts in S,
\* result.joints holds no joint with both sides in S, and the CBUSH and both
\* RBE2 element ids of every chain of every absorbed joint, and the joint's
\* PBUSH property ids, are members of the merged part.
C10_AbsorbedIntoMergedPart ==
    lastMerge.merged =>
        /\ \A i \in DOMAIN result.joints :
              ~(/\ result.joints[i].part_a_id \in lastMerge.merge_set
                /\ result.joints[i].part_b_id \in lastMerge.merge_set)
        /\ \A k \in DOMAIN lastMerge.absorbed :
              \E i \in DOMAIN result.parts :
                  /\ result.parts[i].part_id \in lastMerge.merge_set
                  /\ ChainEids(lastMerge.absorbed[k]) \subseteq result.parts[i].element_ids
                  /\ lastMerge.absorbed[k].pbush_pids \subseteq result.parts[i].property_ids

\* a merge absorbed a joint with a chain and a PBUSH and left another joint,
\* now keyed to the merged part
C10_Witness ==
    /\ lastMerge.merged
    /\ \E k \in DOMAIN lastMerge.absorbed :
          /\ Len(lastMerge.absorbed[k].chains) >= 1
          /\ lastMerge.absorbed[k].pbush_pids # {}
    /\ \E i \in DOMAIN result.joints :
          result.joints[i].part_a_id \in lastMerge.merge_set
          \/ result.joints[i].part_b_id \in lastMerge.merge_set

\* result is what partition_model returned: no merge was made since
Partitioned == ppc # "loaded" /\ lastMerge = NoMerge

\* the wall of the model: the CBUSH and the two RBE2s of every chain, and the
\* boundary nodes, which are the independent nodes of those RBE2s
ModelChains == FindChains(pmodel)

BoundaryEids ==
    UNION {{ModelChains[i].cbush_eid, ModelChains[i].rbe2_a_eid, ModelChains[i].rbe2_b_eid} :
              i \in DOMAIN ModelChains}

BoundaryNodes ==
    UNION {{ModelChains[i].rbe2_a_ind_node, ModelChains[i].rbe2_b_ind_node} :
              i \in DOMAIN ModelChains}

\* the structural elements outside the wall, and the edges of their graph
NonWall == {pmodel.elements[i].eid : i \in DOMAIN pmodel.elements} \ BoundaryEids

NodesOfElem(eid) ==
    {n \in Range(pmodel.elements[CHOOSE i \in DOMAIN pmodel.elements :
                                     pmodel.elements[i].eid = eid].nodes) : n > 0}

\* the edges, as the set of the pairs of elements that share a non-wall node
Links ==
    LET wall == BoundaryNodes
        nodes == [e \in NonWall |-> NodesOfElem(e) \ wall]
    IN  {pair \in NonWall \X NonWall : nodes[pair[1]] \cap nodes[pair[2]] # {}}

\* the elements that a path of at most n edges of links connects to an
\* element of S
RECURSIVE Connected(_, _, _)
Connected(S, n, links) ==
    IF n = 0 THEN S
    ELSE Connected(S \cup {pair[2] : pair \in {l \in links : l[1] \in S}}, n - 1, links)

PartsWith(eid) == {i \in DOMAIN result.parts : eid \in result.parts[i].element_ids}

\* C22: the parts partition_model returns are the connected components of
\* the graph of the non-wall structural elements with an edge between two
\* elements that share a non-wall node: every such element is in exactly
\* one part, two of them are in the same part exactly when a path connects
\* them, and no wall element is in any part.
C22_PartsAreComponents ==
    Partitioned =>
        /\ \A e \in NonWall : Cardinality(PartsWith(e)) = 1
        /\ LET links == Links
               component == [a \in NonWall |-> Connected({a}, Cardinality(NonWall), links)]
           IN  \A a \in NonWall : \A b \in NonWall :
                   (PartsWith(a) = PartsWith(b)) <=> (b \in component[a])
        /\ \A w \in BoundaryEids : PartsWith(w) = {}

\* a partition with two bars that share only a boundary node and are in
\* different parts, and two bars in one part that only a path through a
\* plate connects
C22_Witness ==
    /\ Partitioned
    /\ {41, 42, 43} \subseteq NonWall
    /\ NodesOfElem(41) \cap NodesOfElem(42) # {}
    /\ PartsWith(41) # PartsWith(42)
    /\ <<42, 43>> \notin Links
    /\ PartsWith(42) = PartsWith(43)

\* the parts whose mesh holds a node: the parts with a non-wall structural
\* element on the node
MeshOwners(nid) ==
    {result.parts[i].part_id :
        i \in {k \in DOMAIN result.parts :
                  \E e \in result.parts[k].element_ids \cap NonWall : nid \in NodesOfElem(e)}}

\* the majority owners of a list of nodes: the parts that own the most of
\* them (several parts when the vote is tied, none when no node is owned)
MajorityOwners(node_list) ==
    LET ids == {result.parts[i].part_id : i \in DOMAIN result.parts}
        votes == [p \in ids |->
                     Cardinality({k \in DOMAIN node_list : p \in MeshOwners(node_list[k])})]
    IN  {p \in ids : votes[p] > 0 /\ \A q \in ids : votes[q] <= votes[p]}

JointsWithChain(chain) ==
    {j \in DOMAIN result.joints :
        \E k \in DOMAIN result.joints[j].chains : result.joints[j].chains[k] = chain}

\* C23 as stated: a chain is in the joint keyed (min(A, B), max(A, B)), with
\* the property id of its CBUSH, exactly when the majority owners A and B of
\* the dependent nodes of its two RBE2s are both defined and different (with
\* a tied vote either of the tied parts may be taken); the joints have
\* part_a_id < part_b_id and there is at most one joint per pair of parts.
C23_JointsByMajority ==
    Partitioned =>
        /\ \A j \in DOMAIN result.joints :
              result.joints[j].part_a_id < result.joints[j].part_b_id
        /\ \A i \in DOMAIN result.joints : \A j \in DOMAIN result.joints :
              (/\ result.joints[i].part_a_id = result.joints[j].part_a_id
               /\ result.joints[i].part_b_id = result.joints[j].part_b_id) => i = j
        /\ \A c \in DOMAIN ModelChains :
              LET chain == ModelChains[c]
                  as == MajorityOwners(chain.rbe2_a_dep_nodes)
                  bs == MajorityOwners(chain.rbe2_b_dep_nodes)
                  keys == {<<Min({a, b}), Max({a, b})>> :
                              a \in as, b \in {x \in bs : \E y \in as : y # x}} \ 
                          {<<a, a>> : a \in as}
                  in == JointsWithChain(chain)
              IN  \/ /\ in = {}
                     /\ as = {} \/ bs = {} \/ as \cap bs # {}
                  \/ \E j \in in :
                        /\ in = {j}
                        /\ <<result.joints[j].part_a_id, result.joints[j].part_b_id>> \in keys
                        /\ _get_element_pid(pmodel, chain.cbush_eid)
                               \in result.joints[j].pbush_pids

\* the element ids of the parts of r and of the chains of its joints
ElementsOf(r) ==
    UNION {r.parts[i].element_ids : i \in DOMAIN r.parts}
    \cup UNION {ChainEids(r.joints[j]) : j \in DOMAIN r.joints}

\* C27: merge_parts(merge_parts(r, S), S) = merge_parts(r, S) for the result
\* r of any sequence of merges and every S, and the element ids of the parts
\* together with the chain element ids of the remaining joints are those
\* partition_model returned.
C27_MergeIdempotentConserving ==
    ppc # "loaded" =>
        /\ \A S \in SUBSET (1 .. MaxParts + 1) :
              LET once == merge_parts(result, S)
              IN  merge_parts(once, S) = once
        /\ merge_parts(result, lastMerge.merge_set) = result
        /\ ElementsOf(result) = ElementsOf(partition_model(pmodel))

\* two merges have left one part, which holds the CBUSH of an absorbed chain,
\* and no joint
C27_Witness ==
    /\ lastMerge.merged
    /\ Len(result.parts) = 1
    /\ Len(partition_model(pmodel).parts) >= 3
    /\ result.joints = <<>>
    /\ partition_model(pmodel).joints # <<>>
    /\ \E j \in DOMAIN partition_model(pmodel).joints :
          ChainEids(partition_model(pmodel).joints[j]) \subseteq result.parts[1].element_ids

\* C28 as stated: after any sequence of merges result.joints holds at most
\* one joint per pair of parts, every joint has part_a_id < part_b_id, and
\* both ids of every joint are ids of parts of result.parts.
C28_OneJointPerPair ==
    ppc # "loaded" =>
        /\ \A i, j \in DOMAIN result.joints :
              (/\ result.joints[i].part_a_id = result.joints[j].part_a_id
               /\ result.joints[i].part_b_id = result.joints[j].part_b_id) => i = j
        /\ \A j \in DOMAIN result.joints :
              /\ result.joints[j].part_a_id < result.joints[j].part_b_id
              /\ \E i \in DOMAIN result.parts :
                    result.parts[i].part_id = result.joints[j].part_a_id
              /\ \E i \in DOMAIN result.parts :
                    result.parts[i].part_id = result.joints[j].part_b_id

-----------------------------------------------------------------------------
(* Properties of the part names (naming study) *)

\* C26 as stated: after partition_model the names of the parts are pairwise
\* distinct, and write_partition writes every part and every joint to a file
\* of its own, no file overwriting another.
C26_NamesDistinct ==
    /\ ppc # "loaded" =>
          \A i, j \in DOMAIN result.parts :
              result.parts[i].name = result.parts[j].name => i = j
    /\ ppc = "written" =>
          /\ Cardinality(pfiles) = Len(result.parts) + Len(result.joints) + 2
          /\ \A i \in DOMAIN result.parts : PartFile(pmodel, result.parts[i]) \in pfiles
          /\ \A j \in DOMAIN result.joints :
                JointFile(pmodel, result, result.joints[j]) \in pfiles

-----------------------------------------------------------------------------
(* Properties of CardRenumberer._renumber_sets (set study) *)

\* the number of entries of a list that are keys of a map
Hits(ids, id_map) == Cardinality({i \in DOMAIN ids : ids[i] \in DOMAIN id_map})

\* the list with one map applied to all of it
WholeListMapped(ids, id_map) == [i \in DOMAIN ids |-> MapOrOld(id_map, ids[i])]

-----------------------------------------------------------------------------
(* Properties of the restore of the mass scale tool (restore study) *)

\* C29: after _write_scaled, whether every file was written or the write
\* raised part-way, every scalar of the model is what it was before the call
\* (what was read); the files were written from the model that was read with
\* the factors applied once, and every file that was written is what a first
\* write of the model that was read gives with these factors.
C29_ModelRestored ==
    scale.pc \in {"written", "failed"} =>
        /\ scale.model = scale.loaded
        /\ scale.scaled = _apply_scale_factors_inplace(scale.loaded, scale.groups,
                                                       scale.overrides, Len(scale.groups))
        /\ LET first == _write_scaled([scale EXCEPT !.model = scale.loaded],
                                      [f \in DOMAIN disk |-> [disk[f] EXCEPT !.exists = TRUE]])
           IN  \A f \in DOMAIN scale.out : scale.out[f] = first.out[f]

\* a write that raised on a.inc after main.bdf was written, the CONM2 having
\* no inertia, and after an earlier write with other factors
C29_Witness ==
    /\ scale.pc = "failed"
    /\ DOMAIN scale.out = {"main.bdf"}
    /\ ~disk["a.inc"].exists
    /\ scale.overrides[2] = 2
    /\ scale.loaded.masses[11].val = <<5, None>>
    /\ scale.scaled.masses[11].val = <<10, None>>
    /\ scale.model.masses[11].val = <<5, None>>

-----------------------------------------------------------------------------
(* Properties of the PartitionTool window (window study) *)

\* C30 as stated: at most one background operation runs; while one runs, the
\* path, the model, the result and the part names it uses are what they were
\* when it read them; and a result the window holds is, like its model, of
\* the BDF path that is selected.
C30_BackgroundExclusive ==
    /\ Len(gui.threads) <= 1
    /\ \A i \in DOMAIN gui.threads :
          LET t == gui.threads[i]
          IN  /\ t.kind = "partition" => gui.bdf_path = t.path
              /\ (t.kind = "write" /\ t.step # "started") =>
                    t.used = [model |-> gui.model, result |-> gui.result,
                              bdf_path |-> gui.bdf_path]
    /\ gui.result # NoGuiResult =>
          (gui.result.path = gui.bdf_path /\ gui.model = gui.bdf_path)

-----------------------------------------------------------------------------
(* Properties of merge_parts (merge study) *)

\* the parts of r whose id is in S, and the joints of r with both sides in S
ExistingIn(r, S) == {i \in DOMAIN r.parts : r.parts[i].part_id \in S}

BothSidesIn(r, S) ==
    {j \in DOMAIN r.joints : r.joints[j].part_a_id \in S /\ r.joints[j].part_b_id \in S}

\* the nodes of the chains of a joint
ChainNodes(joint) ==
    UNION {Range(joint.chains[i].cbush_nodes) \cup Range(joint.chains[i].rbe2_a_dep_nodes)
              \cup Range(joint.chains[i].rbe2_b_dep_nodes) : i \in DOMAIN joint.chains}

\* a joint with its sides in S set to merged_id and the lower side first
Rekeyed(joint, S, merged_id) ==
    LET a == IF joint.part_a_id \in S THEN merged_id ELSE joint.part_a_id
        b == IF joint.part_b_id \in S THEN merged_id ELSE joint.part_b_id
    IN  [joint EXCEPT !.part_a_id = Min({a, b}), !.part_b_id = Max({a, b})]

\* what merge_parts(r, S) = r2 is to be when the merged part gets merged_id
MergedInto(r, r2, S, merged_id) ==
    LET left == {j \in DOMAIN r.joints : j \notin BothSidesIn(r, S)}
    IN  /\ \E i \in DOMAIN r2.parts :
              /\ r2.parts[i].part_id = merged_id
              /\ r2.parts[i].element_ids =
                     UNION {r.parts[k].element_ids : k \in ExistingIn(r, S)}
                     \cup UNION {ChainEids(r.joints[j]) : j \in BothSidesIn(r, S)}
              /\ r2.parts[i].node_ids =
                     UNION {r.parts[k].node_ids : k \in ExistingIn(r, S)}
                     \cup UNION {ChainNodes(r.joints[j]) : j \in BothSidesIn(r, S)}
              /\ r2.parts[i].property_ids =
                     UNION {r.parts[k].property_ids : k \in ExistingIn(r, S)}
                     \cup UNION {r.joints[j].pbush_pids : j \in BothSidesIn(r, S)}
        /\ \A i \in DOMAIN r2.parts : \A k \in DOMAIN r2.parts :
              r2.parts[i].part_id = r2.parts[k].part_id => i = k
        /\ {r2.parts[i] : i \in {k \in DOMAIN r2.parts : r2.parts[k].part_id # merged_id}}
              = {r.parts[i] : i \in DOMAIN r.parts \ ExistingIn(r, S)}
        /\ Len(r2.joints) = Cardinality(left)
        /\ \A j \in left :
              \E k \in DOMAIN r2.joints : r2.joints[k] = Rekeyed(r.joints[j], S, merged_id)

\* C24 as stated: merge_parts(result, S) with at least two existing parts in
\* S replaces them by one part whose id is the lowest id in S, with the
\* unions of their sets and the contents of the absorbed chains, leaves the
\* other parts unchanged and rekeys the joints with one side in S; with
\* fewer than two existing parts in S the result is unchanged.
C24_AsStated ==
    [][lastMerge' # lastMerge =>
          IF Cardinality(ExistingIn(result, lastMerge'.merge_set)) < 2
          THEN result' = result
          ELSE MergedInto(result, result', lastMerge'.merge_set,
                          Min(lastMerge'.merge_set))]_vars

\* C24: the same, the merged part having the lowest id among the existing
\* parts in S.
C24_MergeFrame ==
    [][lastMerge' # lastMerge =>
          IF Cardinality(ExistingIn(result, lastMerge'.merge_set)) < 2
          THEN result' = result
          ELSE MergedInto(result, result', lastMerge'.merge_set,
                          Min({result.parts[i].part_id :
                                  i \in ExistingIn(result, lastMerge'.merge_set)}))]_vars

\* a merge of two existing parts named together with an id that is lower and
\* is no part: the merged part holds the elements of both
C24_Witness ==
    /\ lastMerge.merged
    /\ \A i \in DOMAIN result.parts : result.parts[i].part_id # Min(lastMerge.merge_set)
    /\ \E i \in DOMAIN result.parts :
          /\ result.parts[i].part_id \in lastMerge.merge_set
          /\ Cardinality(result.parts[i].element_ids) >= 2


-----------------------------------------------------------------------------
(* Properties of MappingBuilder.build per bucket (deck study) *)

\* C19 as stated: for each (file, family) bucket that has a range, build
\* gives the i-th smallest old id of the bucket (i from 0) the new id
\* start + i, so the image of the bucket is the block start .. start + count - 1;
\* ids of buckets without a range get no map entry.
C19_BucketImageIsBlock ==
    pc \in {"built", "applied", "written"} =>
        \A etype \in AllTypes, f \in Files :
            LET ids == file_ids[f][etype]
                r == ranges[f][etype]
            IN  IF r = NoRange
                THEN \A old \in ids : old \notin DOMAIN maps[etype]
                ELSE /\ \A old \in ids :
                          /\ old \in DOMAIN maps[etype]
                          /\ maps[etype][old] = r[1] + IndexIn(old, ids)
                     /\ {maps[etype][old] : old \in ids \cap DOMAIN maps[etype]}
                            = r[1] .. r[1] + Cardinality(ids) - 1


-----------------------------------------------------------------------------
(* Properties of the written files (layout study) *)

\* the cards of the input deck that carry an SPC, MPC or load set id
SetCards == {c \in CardsOf(model0) : CARD_ENTITY_MAP(c.type) \in SET_ID_TYPES}

\* the case-control lines of a sequence of lines
CaseLines(lines) == SelectSeq(lines, LAMBDA l : l.kind = "case")

\* C13 as stated: SPC, MPC and load set ids are remapped if and only if the
\* include-set-ids toggle is on; with the toggle off every such set id is
\* unchanged on the cards and in the case-control lines, and every SPC, MPC
\* and load card is still emitted by the writer under its original set id.
C13_SetIdsFollowToggle ==
    /\ Renumbered =>
          \A c \in SetCards :
              PrimaryId(CardOf(model, c.uid))
                  = IF include_set_ids
                    THEN MapOrOld(maps[CARD_ENTITY_MAP(c.type)], PrimaryId(c))
                    ELSE PrimaryId(c)
    /\ (pc = "written" /\ ~include_set_ids) =>
          /\ CaseLines(out["main.bdf"]) = CaseLines(disk["main.bdf"].lines)
          /\ \A c \in SetCards :
                \E f \in Files : \E i \in DOMAIN out[f] :
                    /\ out[f][i].kind = "card"
                    /\ out[f][i].uid = c.uid
                    /\ out[f][i].id = PrimaryId(c)

\* C17 as stated: every line the parser kept as passthrough text (cards on
\* the skip list, cards whose name is not in the registry) is written
\* verbatim into the output file of the input file it came from.
C17_PassthroughWritten ==
    pc = "written" =>
        \A f \in Files : \A i \in DOMAIN parser.file_passthrough[f] :
            \E j \in DOMAIN out[f] : out[f][j] = parser.file_passthrough[f][i]

\* the targets of the INCLUDE lines of a sequence of lines, in order
IncludesOf(lines) ==
    LET inc == SelectSeq(lines, LAMBDA l : l.kind = "include")
    IN  [i \in DOMAIN inc |-> inc[i].name]

\* C18 as stated: write produces one output file per file of all_files, and
\* the output of every file holds the INCLUDE lines of the files it included,
\* in the original order, also for includes nested inside include files.
C18_IncludeStructureKept ==
    pc = "written" =>
        /\ DOMAIN out = Range(parser.all_files)
        /\ \A f \in DOMAIN out : IncludesOf(out[f]) = parser.file_tree[f]

\* the CARD_ORDER group a card type is in
GroupOf(t) == CHOOSE g \in DOMAIN CARD_ORDER : t \in Range(CARD_ORDER[g])

\* the positions in an output file of the cards selected through CARD_ORDER:
\* the card lines before the marker of the fallback cards
OrderedAt(f) ==
    {j \in DOMAIN out[f] :
        /\ out[f][j].kind = "card"
        /\ \E i \in DOMAIN written[f].ordered : written[f].ordered[i].uid = out[f][j].uid
        /\ \A k \in 1 .. j : ~(out[f][k].kind = "comment" /\ out[f][k].name = "fallback")}

\* C20: in every written file the cards selected through CARD_ORDER stand in
\* the order of the groups of CARD_ORDER (no card of a later group before a
\* card of an earlier group), and in the main file they stand after BEGIN
\* BULK and the INCLUDE lines and before ENDDATA.
C20_CanonicalOrder ==
    pc = "written" =>
        /\ \A f \in DOMAIN out :
              /\ \A i \in DOMAIN written[f].ordered :
                    \E j \in OrderedAt(f) : out[f][j].uid = written[f].ordered[i].uid
              /\ \A i, j \in OrderedAt(f) :
                    i < j => GroupOf(out[f][i].name) <= GroupOf(out[f][j].name)
        /\ \A j \in OrderedAt("main.bdf"), i \in DOMAIN out["main.bdf"] :
              /\ out["main.bdf"][i].kind \in {"begin_bulk", "include"} => i < j
              /\ out["main.bdf"][i].kind = "enddata" => j < i
        /\ \E i \in DOMAIN out["main.bdf"] : out["main.bdf"][i].kind = "begin_bulk"
        /\ out["main.bdf"][Len(out["main.bdf"])].kind = "enddata"

\* the main file was written with INCLUDE lines and cards of three groups
C20_Witness ==
    /\ pc = "written"
    /\ IncludesOf(out["main.bdf"]) # <<>>
    /\ Cardinality({GroupOf(out["main.bdf"][j].name) : j \in OrderedAt("main.bdf")}) >= 3
    /\ \E f \in Files \ {"main.bdf"} : Cardinality(OrderedAt(f)) >= 2


-----------------------------------------------------------------------------
(* Properties of CaseControlRenumberer (case-control study) *)

\* the case-control line a line of the input is to become: its number sent
\* once through the map of the family of its keyword
Remapped(l) ==
    IF l.name = "" \/ (~include_set_ids /\ l.name \in SET_ID_TYPES) THEN l
    ELSE [l EXCEPT !.text[Len(l.text)] = Number(MapOrOld(maps[l.name], l.id))]

\* C14 as stated: a case-control line KEYWORD = N or KEYWORD(opts) = N of
\* the thirteen keywords is written with N replaced by map[N] of the
\* keyword's family applied exactly once, every other line is unchanged, and
\* the number and order of the lines is kept.
C14_CaseControlRemappedOnce ==
    pc = "written" =>
        LET case_lines == CaseLines(disk["main.bdf"].lines)
        IN  CaseLines(out["main.bdf"]) = [i \in DOMAIN case_lines |-> Remapped(case_lines[i])]


-----------------------------------------------------------------------------
(* Properties of IncludeFileParser (parse study) *)

\* no file was entered twice, and a file that does not exist is recorded
\* with empty catalogs, no passthrough lines and no includes
EnteredOnce ==
    /\ \A i, j \in DOMAIN parser.all_files :
          parser.all_files[i] = parser.all_files[j] => i = j
    /\ DOMAIN parser.file_ids = Range(parser.all_files)
    /\ \A f \in DOMAIN parser.file_ids :
          ~disk[f].exists =>
              /\ \A etype \in AllTypes : parser.file_ids[f][etype] = {}
              /\ parser.file_passthrough[f] = <<>>
              /\ parser.file_tree[f] = <<>>

\* parse has returned, and every INCLUDE target of a file it entered is
\* recorded
ParseDone ==
    /\ parser.stack = <<>>
    /\ "main.bdf" \in DOMAIN parser.file_ids
    /\ \A f \in DOMAIN parser.file_tree :
          Range(parser.file_tree[f]) \subseteq DOMAIN parser.file_ids

BulkAt(f) ==
    LET lines == disk[f].lines
    IN  {i \in DOMAIN lines :
            /\ f = "main.bdf" => \E b \in 1 .. i - 1 : lines[b].kind = "begin_bulk"
            /\ \A e \in 1 .. i : lines[e].kind # "enddata"}

\* the lines a file holds of cards whose name is not in the registry: the
\* primary lines of such cards and the continuation lines that follow them
UnregisteredLines(f) ==
    LET lines == disk[f].lines
        owner(i) == Max({k \in 1 .. i : lines[k].kind = "card"} \cup {0})
        at == SortedSeq({i \in BulkAt(f) :
                            /\ lines[i].kind \in {"card", "cont"}
                            /\ owner(i) # 0
                            /\ CARD_ENTITY_MAP(lines[owner(i)].name) = "none"})
    IN  [k \in DOMAIN at |-> lines[at[k]]]

\* C16 as stated: the passthrough list of a file is exactly the bulk-data
\* lines of the cards whose name is not in the registry, primary and
\* continuation lines, in file order; a continuation line of a registered
\* card is never in it, whether it starts with "+", "*" or a blank field.
C16_PassthroughExact ==
    ParseDone =>
        \A f \in DOMAIN parser.file_passthrough :
            disk[f].exists => parser.file_passthrough[f] = UnregisteredLines(f)

\* the ids a file is to catalogue under a family: the primary ids of its
\* bulk-data card lines whose name the registry puts in the family
PhysicalIds(f, etype) ==
    LET lines == disk[f].lines
    IN  {lines[i].id : i \in {k \in BulkAt(f) :
                                  /\ lines[k].kind = "card"
                                  /\ CARD_ENTITY_MAP(lines[k].name) = etype
                                  /\ lines[k].id # None
                                  /\ lines[k].id > 0}}

\* C21: after parse, the catalog of every file holds, under each family,
\* exactly the primary ids of the bulk-data card lines of that family that
\* stand in the file itself (an id is in no catalog of a file that does not
\* hold its line); lines of the main file before BEGIN BULK or after ENDDATA
\* are not catalogued, and an include file is bulk data from its first line.
C21_CatalogIsPhysical ==
    ParseDone =>
        \A f \in DOMAIN parser.file_ids :
            \A etype \in Range(ENTITY_TYPES) :
                parser.file_ids[f][etype]
                    = IF disk[f].exists THEN PhysicalIds(f, etype) ELSE {}

\* parse came to its end on a.inc with a RBE2 at its first line, catalogued
\* there and not in main.bdf, whose GRID-like lines outside the bulk data
\* section are not catalogued
C21_Witness ==
    /\ ParseDone
    /\ parser.file_ids["a.inc"]["eid"] = {1, 2}
    /\ disk["a.inc"].lines[1].kind = "card"
    /\ parser.file_ids["main.bdf"]["eid"] = {}
    /\ parser.file_ids["main.bdf"]["nid"] = {}
    /\ \E i \in DOMAIN disk["main.bdf"].lines :
          disk["main.bdf"].lines[i].name = "GRID" /\ i \notin BulkAt("main.bdf")


-----------------------------------------------------------------------------
(* Properties of the mass scale tool (scale study) *)

\* the cards of the deck, the file whose text holds the primary line of a
\* card, and the index of the group of a file
ScaleCards == UNION {Range(scale.loaded[d]) : d \in DOMAIN scale.loaded}

TextHome(c) ==
    CHOOSE f \in DOMAIN disk :
        \E i \in DOMAIN disk[f].lines :
            disk[f].lines[i].kind = "card" /\ disk[f].lines[i].uid = c.uid

GroupOfFile(f) == CHOOSE i \in DOMAIN scale.groups : scale.groups[i].filepath = f

\* the lines of a card: its primary line and the continuation lines up to
\* the next primary line
CardLineOf(lines, i) ==
    LET before == {j \in 1..i : lines[j].kind = "card"}
    IN  IF before = {} THEN 0 ELSE Max(before)

\* what the rewrite of a file is to be: each line that is neither the primary
\* line nor a continuation line of a card of the lookup as it is, and one
\* serialization in the place of the primary line of such a card
InLookup(l, lookup) == l.kind = "card" /\ <<l.name, l.id>> \in DOMAIN lookup

ExpectedRewrite(lines, lookup) ==
    LET kept == SelectSeq([i \in DOMAIN lines |-> i],
                          LAMBDA i : ~(/\ lines[i].kind = "cont"
                                       /\ CardLineOf(lines, i) # 0
                                       /\ InLookup(lines[CardLineOf(lines, i)], lookup)))
    IN  [k \in DOMAIN kept |->
            IF InLookup(lines[kept[k]], lookup)
            THEN write_card(lookup[<<lines[kept[k]].name, lines[kept[k]].id>>])
            ELSE lines[kept[k]]]

\* C12: _rewrite_file_with_scaled_cards copies every line that is neither the
\* primary line nor a continuation line of a scaled card unchanged and in
\* order (comment and blank lines after a scaled card, passthrough cards,
\* INCLUDE lines and the executive and case-control sections among them) and
\* writes exactly one serialization in the place of the lines of each scaled
\* card.
C12_RewriteVerbatim ==
    scale.pc = "written" =>
        \A f \in DOMAIN scale.out :
            scale.out[f] = ExpectedRewrite(disk[f].lines,
                               _build_scaled_lookup(scale.scaled,
                                                    scale.groups[GroupOfFile(f)]))

\* the scalars a card is to have under factor s, the scalars the lines of a
\* written file give it, and the number of its primary lines in the file
TargetTypes ==
    _RHO_MAT_TYPES \cup _NSM_PROP_TYPES \cup {"CONROD", "CONM2", "CONM1", "CMASS1", "CMASS2"}

ScaledVal(c, s) ==
    IF c.type \in TargetTypes
    THEN [k \in DOMAIN c.val |-> IF c.val[k] = None THEN None ELSE c.val[k] * s]
    ELSE c.val

Serializations(lines, c) ==
    {i \in DOMAIN lines : lines[i].kind = "written" /\ lines[i].uid = c.uid}

PrimaryLines(lines, c) ==
    {i \in DOMAIN lines : lines[i].kind \in {"card", "written"} /\ lines[i].uid = c.uid}

ValIn(lines, c) ==
    IF Serializations(lines, c) = {} THEN c.val
    ELSE lines[CHOOSE i \in Serializations(lines, c) : TRUE].text

InModel(mdl, c) == CHOOSE x \in UNION {Range(mdl[d]) : d \in DOMAIN mdl} : x.uid = c.uid

\* C11: scaling changes only the file it is applied to.  After a write with
\* the factors {file -> s}: the model the files were written from has the
\* scalars of every card multiplied by the factor of the file that holds
\* the card (so none changed for factor 1); a file with factor 1 is not
\* written, or is written as it was; a file with factor s # 1 is written
\* with each of its cards once, the scalars of its scalable cards
\* multiplied by s, and with no card of another file; and the scalars of
\* the model are restored after the write.
C11_ScalingIsPerFile ==
    scale.pc = "written" =>
        /\ scale.model = scale.loaded
        /\ \A c \in ScaleCards :
              InModel(scale.scaled, c).val
                  = ScaledVal(c, scale.overrides[GroupOfFile(TextHome(c))])
        /\ \A f \in Files :
              LET s == scale.overrides[GroupOfFile(f)]
              IN  IF s = 1
                  THEN f \in DOMAIN scale.out => scale.out[f] = disk[f].lines
                  ELSE /\ f \in DOMAIN scale.out
                       /\ \A c \in ScaleCards :
                             IF TextHome(c) = f
                             THEN /\ Cardinality(PrimaryLines(scale.out[f], c)) = 1
                                  /\ ValIn(scale.out[f], c) = ScaledVal(c, s)
                             ELSE PrimaryLines(scale.out[f], c) = {}

\* a write with factor 1 for main.bdf and two other factors for a.inc and
\* b.inc, after which a.inc holds the serialization of its scaled CONM2
C11_Witness ==
    /\ scale.pc = "written"
    /\ scale.overrides = <<1, 2, 0>>
    /\ \E i \in DOMAIN scale.out["a.inc"] :
          /\ scale.out["a.inc"][i].kind = "written"
          /\ scale.out["a.inc"][i].name = "CONM2"
          /\ scale.out["a.inc"][i].text = <<10, 14>>

====
